---- MODULE Spec2Model ----
(***************************************************************************)
(* Command registry, command factory and command-line interpreter of       *)
(* alot (alot/command.py).                                                 *)
(*                                                                         *)
(* Python strings are sequences of atoms: every atom stands for a fixed    *)
(* piece of text that contains no whitespace, except the atoms " " (one    *)
(* space) and "\t" (one tab).  The string is the concatenation of its      *)
(* atoms, so <<"search", " ", "x">> is the Python string 'search x'.       *)
(* Python values are tagged sequences (PyStr, PyBool, ...), so that values *)
(* of different Python types are different and comparable.                 *)
(***************************************************************************)
EXTENDS Integers, Sequences, FiniteSets, TLC

VARIABLES
  registry,  \* the module-level dict COMMANDS
  hooks,     \* settings.hooks: hook name -> hook
  aliases,   \* section command-aliases of settings.config: alias -> expansion
  files,     \* the paths at which os.path.isfile finds a file
  pc,        \* "idle": no call made; "returned": a call has returned
  call,      \* the call made: operation and arguments
  ret,       \* its outcome: a command, nothing, or an exception
  logged,    \* what the call logged
  calls,     \* the commandfactory calls made during the call
  invoked,   \* how often each call-site value was invoked during the call
  ui,        \* the UI and its store while commands are applied to it
  last,      \* what was seen of the last apply: the command and the UI before it,
             \* or whether the calling buffer had the focus since the command ended
  ext        \* an ExternalCommand being applied: worker, pipe and buffers

dispatchVars == <<registry, hooks, aliases, files, pc, call, ret, logged, calls, invoked>>
vars == <<registry, hooks, aliases, files, pc, call, ret, logged, calls, invoked, ui, last, ext>>

(***************************************************************************)
(* Bounds of the model.                                                    *)
(***************************************************************************)
\* longest text that follows the first atom of a command line
MaxTail == 3
\* largest number of call-site parameters of a direct commandfactory call
MaxKwargs == 2

(***************************************************************************)
(* Python values.                                                          *)
(***************************************************************************)
PyNone == <<"None">>
PyTrue == <<"bool", "True">>
PyFalse == <<"bool", "False">>
PyBool(b) == IF b THEN PyTrue ELSE PyFalse
PyPlusOne == <<"int", "1">>
PyMinusOne == <<"int", "-1">>
PyZero == <<"int", "0">>
PyStr(s) == <<"str">> \o s
\* a zero-argument callable whose call returns v
Deferred(v) == <<"callable">> \o v
\* the dict {'To': s}
PyDictTo(s) == <<"dict", "To">> \o s
\* a freshly built MIMEMultipart with one empty text part
NewMail == <<"obj", "MIMEMultipart">>

IsStr(v) == Len(v) >= 1 /\ v[1] = "str"
StrOf(v) == Tail(v)
\* callable(value)
Callable(v) == Len(v) >= 1 /\ v[1] = "callable"
\* value()
Invoke(v) == Tail(v)
\* truth value of a Python object, as `if v`, `not v` and `assert v` see it
Truthy(v) == v \notin {PyNone, PyFalse, PyZero, PyStr(<<>>)}

\* the empty dict
EmptyMap == [k \in {} |-> PyNone]
\* dict.get(key), None when the key is absent
Get(d, k) == IF k \in DOMAIN d THEN d[k] ELSE PyNone
\* d.update(e) on a dict
Update(d, e) == [k \in DOMAIN d \cup DOMAIN e |-> IF k \in DOMAIN e THEN e[k] ELSE d[k]]

(***************************************************************************)
(* The registry: mode -> name -> (class, default parameters).              *)
(***************************************************************************)
Modes == {"search", "envelope", "bufferlist", "taglist", "thread", "global"}

Entry(c, d) == [cls |-> c, parms |-> d]

COMMANDS ==
  [m \in Modes |->
     CASE m = "search" ->
            ( "refine" :> Entry("RefineCommand", EmptyMap)
           @@ "refineprompt" :> Entry("RefinePromptCommand", EmptyMap)
           @@ "openthread" :> Entry("OpenThreadCommand", EmptyMap)
           @@ "toggletag" :> Entry("ToggleThreadTagCommand", "tag" :> PyStr(<<"inbox">>))
           @@ "retag" :> Entry("RetagCommand", EmptyMap)
           @@ "retagprompt" :> Entry("RetagPromptCommand", EmptyMap) )
       [] m = "envelope" ->
            ( "send" :> Entry("EnvelopeSendCommand", EmptyMap)
           @@ "reedit" :> Entry("EnvelopeEditCommand", EmptyMap)
           @@ "subject" :> Entry("EnvelopeSetCommand", "key" :> PyStr(<<"Subject">>))
           @@ "to" :> Entry("EnvelopeSetCommand", "key" :> PyStr(<<"To">>)) )
       [] m = "bufferlist" ->
            ( "closefocussed" :> Entry("BufferCloseCommand", "focussed" :> PyTrue)
           @@ "openfocussed" :> Entry("BufferFocusCommand", EmptyMap) )
       [] m = "taglist" ->
            ( "select" :> Entry("TaglistSelectCommand", EmptyMap) )
       [] m = "thread" ->
            ( "reply" :> Entry("ReplyCommand", EmptyMap)
           @@ "groupreply" :> Entry("ReplyCommand", "groupreply" :> PyTrue)
           @@ "forward" :> Entry("ForwardCommand", EmptyMap)
           @@ "bounce" :> Entry("BounceMailCommand", EmptyMap)
           @@ "fold" :> Entry("FoldMessagesCommand", "visible" :> PyTrue)
           @@ "unfold" :> Entry("FoldMessagesCommand", "visible" :> PyFalse) )
       [] m = "global" ->
            ( "bnext" :> Entry("BufferFocusCommand", "offset" :> PyPlusOne)
           @@ "bprevious" :> Entry("BufferFocusCommand", "offset" :> PyMinusOne)
           @@ "bufferlist" :> Entry("OpenBufferlistCommand", EmptyMap)
           @@ "close" :> Entry("BufferCloseCommand", EmptyMap)
           @@ "commandprompt" :> Entry("CommandPromptCommand", EmptyMap)
           @@ "compose" :> Entry("ComposeCommand", EmptyMap)
           @@ "edit" :> Entry("EditCommand", EmptyMap)
           @@ "exit" :> Entry("ExitCommand", EmptyMap)
           @@ "flush" :> Entry("FlushCommand", EmptyMap)
           @@ "prompt" :> Entry("PromptCommand", EmptyMap)
           @@ "pyshell" :> Entry("PythonShellCommand", EmptyMap)
           @@ "refresh" :> Entry("RefreshCommand", EmptyMap)
           @@ "search" :> Entry("SearchCommand", EmptyMap)
           @@ "shellescape" :> Entry("ExternalCommand", EmptyMap)
           @@ "taglist" :> Entry("TagListCommand", EmptyMap) )]

\* every name registered in some mode
AllNames == UNION {DOMAIN COMMANDS[m] : m \in Modes}

(***************************************************************************)
(* Outcome of a call: a constructed command, nothing (None), or an         *)
(* exception that leaves the call.                                         *)
(***************************************************************************)
Cmd(c, p, a) == [kind |-> "cmd", cls |-> c, parms |-> p, attrs |-> a, exc |-> ""]
Nothing == [kind |-> "none", cls |-> "", parms |-> EmptyMap, attrs |-> EmptyMap, exc |-> ""]
Raise(e) == [kind |-> "raise", cls |-> "", parms |-> EmptyMap, attrs |-> EmptyMap, exc |-> e]

\* value of keyword parameter k: the argument given, else the default d
Arg(p, k, d) == IF k \in DOMAIN p THEN p[k] ELSE d

(***************************************************************************)
(* Settings read by the constructors ([general] section of the config).    *)
(***************************************************************************)
spawn_editor == PyFalse
editor_cmd == <<"vim">>

\* message.encode_header(key, value): an injective encoding of the pair
encode_header(k, v) == <<"encode_header">> \o k \o <<"|">> \o v

(***************************************************************************)
(* Constructors.  p is the mapping passed as keyword arguments; the        *)
(* result is the outcome of the call, with the fields of the instance.     *)
(***************************************************************************)
\* Command.__init__: prehook and posthook default to None, other keys are ignored
Command(c, p) ==
  Cmd(c, p, ( "prehook" :> Arg(p, "prehook", PyNone)
           @@ "posthook" :> Arg(p, "posthook", PyNone)
           @@ "undoable" :> PyFalse
           @@ "help" :> <<"doc", c>> ))

\* the constructed instance with further fields set by a subclass
WithAttrs(o, a) == IF o.kind = "cmd" THEN [o EXCEPT !.attrs = a @@ @] ELSE o

OpenThreadCommand(p) ==
  WithAttrs(Command("OpenThreadCommand", p), "thread" :> Arg(p, "thread", PyNone))

SearchCommand(p) ==
  IF "query" \notin DOMAIN p THEN Raise("TypeError")
  ELSE WithAttrs(Command("SearchCommand", p),
                 "query" :> p["query"] @@ "force_new" :> Arg(p, "force_new", PyFalse))

PromptCommand(p) ==
  WithAttrs(Command("PromptCommand", p), "startstring" :> Arg(p, "startstring", PyStr(<<>>)))

\* ExternalCommand.__init__, also run by EditCommand.__init__ for class c
ExternalCommandInit(c, p) ==
  IF "commandstring" \notin DOMAIN p THEN Raise("TypeError")
  ELSE WithAttrs(Command(c, p),
                 "commandstring" :> p["commandstring"]
              @@ "spawn" :> Arg(p, "spawn", PyFalse)
              @@ "refocus" :> Arg(p, "refocus", PyTrue)
              @@ "in_thread" :> Arg(p, "in_thread", PyFalse)
              @@ "on_success" :> Arg(p, "on_success", PyNone))

ExternalCommand(p) == ExternalCommandInit("ExternalCommand", p)

EditCommand(p) ==
  IF "path" \notin DOMAIN p THEN Raise("TypeError")
  ELSE LET path == p["path"]
           spawn == IF Arg(p, "spawn", PyNone) # PyNone THEN p["spawn"] ELSE spawn_editor
           kwargs == [k \in DOMAIN p \ {"path", "spawn"} |-> p[k]]
       IN  IF ~IsStr(path) THEN Raise("TypeError")
           ELSE IF {"commandstring", "in_thread"} \cap DOMAIN kwargs # {}
                THEN Raise("TypeError")
           ELSE LET cmd == PyStr(editor_cmd \o <<" ">> \o StrOf(path))
                    o == ExternalCommandInit("EditCommand",
                           kwargs @@ ( "commandstring" :> cmd
                                    @@ "spawn" :> spawn
                                    @@ "in_thread" :> spawn ))
                IN  [WithAttrs(o, "path" :> path) EXCEPT !.parms = p]

BufferCloseCommand(p) ==
  WithAttrs(Command("BufferCloseCommand", p),
            "buffer" :> Arg(p, "buffer", PyNone) @@ "focussed" :> Arg(p, "focussed", PyFalse))

BufferFocusCommand(p) ==
  WithAttrs(Command("BufferFocusCommand", p),
            "buffer" :> Arg(p, "buffer", PyNone) @@ "offset" :> Arg(p, "offset", PyZero))

OpenBufferlistCommand(p) ==
  WithAttrs(Command("OpenBufferlistCommand", p), "filtfun" :> Arg(p, "filtfun", PyNone))

TagListCommand(p) ==
  WithAttrs(Command("TagListCommand", p), "filtfun" :> Arg(p, "filtfun", PyNone))

ToggleThreadTagCommand(p) ==
  IF "tag" \notin DOMAIN p THEN Raise("TypeError")
  ELSE IF ~Truthy(p["tag"]) THEN Raise("AssertionError")
  ELSE WithAttrs(Command("ToggleThreadTagCommand", p),
                 "thread" :> Arg(p, "thread", PyNone) @@ "tag" :> p["tag"])

ComposeCommand(p) ==
  WithAttrs(Command("ComposeCommand", p),
            "mail" :> (IF ~Truthy(Arg(p, "mail", PyNone)) THEN NewMail ELSE p["mail"]))

RetagCommand(p) ==
  WithAttrs(Command("RetagCommand", p), "tagsstring" :> Arg(p, "tagsstring", PyStr(<<>>)))

RefineCommand(p) ==
  WithAttrs(Command("RefineCommand", p), "querystring" :> Arg(p, "query", PyNone))

ReplyCommand(p) ==
  WithAttrs(Command("ReplyCommand", p), "groupreply" :> Arg(p, "groupreply", PyFalse))

ForwardCommand(p) ==
  WithAttrs(Command("ForwardCommand", p), "inline" :> Arg(p, "inline", PyFalse))

FoldMessagesCommand(p) ==
  WithAttrs(Command("FoldMessagesCommand", p),
            "all" :> Arg(p, "all", PyFalse) @@ "visible" :> Arg(p, "visible", PyTrue))

EnvelopeEditCommand(p) ==
  WithAttrs(Command("EnvelopeEditCommand", p),
            "mail" :> Arg(p, "mail", PyNone)
         @@ "openNew" :> PyBool(Arg(p, "mail", PyNone) # PyNone))

EnvelopeSetCommand(p) ==
  WithAttrs(Command("EnvelopeSetCommand", p),
            "key" :> Arg(p, "key", PyStr(<<>>))
         @@ "value" :> encode_header(Arg(p, "key", PyStr(<<>>)), Arg(p, "value", PyStr(<<>>)))
         @@ "replace" :> Arg(p, "replace", PyTrue))

\* the call of cmdclass with the mapping parms as keyword arguments
Construct(c, p) ==
  CASE c = "OpenThreadCommand" -> OpenThreadCommand(p)
    [] c = "SearchCommand" -> SearchCommand(p)
    [] c = "PromptCommand" -> PromptCommand(p)
    [] c = "ExternalCommand" -> ExternalCommand(p)
    [] c = "EditCommand" -> EditCommand(p)
    [] c = "BufferCloseCommand" -> BufferCloseCommand(p)
    [] c = "BufferFocusCommand" -> BufferFocusCommand(p)
    [] c = "OpenBufferlistCommand" -> OpenBufferlistCommand(p)
    [] c = "TagListCommand" -> TagListCommand(p)
    [] c = "ToggleThreadTagCommand" -> ToggleThreadTagCommand(p)
    [] c = "ComposeCommand" -> ComposeCommand(p)
    [] c = "RetagCommand" -> RetagCommand(p)
    [] c = "RefineCommand" -> RefineCommand(p)
    [] c = "ReplyCommand" -> ReplyCommand(p)
    [] c = "ForwardCommand" -> ForwardCommand(p)
    [] c = "FoldMessagesCommand" -> FoldMessagesCommand(p)
    [] c = "EnvelopeEditCommand" -> EnvelopeEditCommand(p)
    [] c = "EnvelopeSetCommand" -> EnvelopeSetCommand(p)
    [] OTHER -> Command(c, p)

(***************************************************************************)
(* commandfactory(cmdname, mode='global', **kwargs)                        *)
(***************************************************************************)
\* mutant of Lookup: no fallback to the global mode
LookupModeOnly(reg, cmdname, mode) ==
  IF cmdname \in DOMAIN reg[mode] THEN <<reg[mode][cmdname]>> ELSE <<>>

\* lines 795-800: the registry entry bound to (cmdclass, parms), as a
\* sequence of one entry; the empty sequence when neither branch binds them
Lookup(reg, cmdname, mode) ==
  IF cmdname \in DOMAIN reg[mode] THEN <<reg[mode][cmdname]>>
  ELSE IF cmdname \in DOMAIN reg["global"] THEN <<reg["global"][cmdname]>>
  ELSE <<>>

\* mutant of Merged: the registered defaults are dropped
MergedKwargsOnly(parms, kwargs) ==
  [k \in DOMAIN kwargs |-> IF Callable(kwargs[k]) THEN Invoke(kwargs[k]) ELSE kwargs[k]]

\* mutant of Merged: a registered default wins over the call-site value
MergedDefaultsWin(parms, kwargs) ==
  LET u == Update(kwargs, parms)
  IN  [k \in DOMAIN u |->
         IF k \in DOMAIN parms THEN parms[k]
         ELSE IF Callable(kwargs[k]) THEN Invoke(kwargs[k]) ELSE kwargs[k]]

\* the merge without the loop that invokes callable values
MergedUninvoked(parms, kwargs) == Update(parms, kwargs)

\* lines 801-807: the copy of the defaults, updated with kwargs; every value
\* of kwargs that is callable is replaced by the result of calling it
Merged(parms, kwargs) ==
  LET u == Update(parms, kwargs)
  IN  [k \in DOMAIN u |->
         IF k \in DOMAIN kwargs
         THEN IF Callable(kwargs[k]) THEN Invoke(kwargs[k]) ELSE kwargs[k]
         ELSE u[k]]

\* key of the hook table: 'pre_' + cmdname, 'post_' + cmdname
HookKey(phase, cmdname) == <<phase, cmdname>>

\* mutant of WithHooks: a hook given at the call site is kept
WithHooksKeepCallSite(parms, hk, cmdname) ==
  Update("prehook" :> Get(hk, HookKey("pre_", cmdname))
      @@ "posthook" :> Get(hk, HookKey("post_", cmdname)), parms)

\* lines 809-810
WithHooks(parms, hk, cmdname) ==
  Update(parms, "prehook" :> Get(hk, HookKey("pre_", cmdname))
             @@ "posthook" :> Get(hk, HookKey("post_", cmdname)))

\* The local variable parms of a running commandfactory is a reference to
\* a dict object.  While shared holds, it refers to the dict registered for
\* name in mode src, the object COMMANDS itself holds in reg; otherwise it
\* refers to the dict own, which nothing else refers to.
\* lines 796 and 798: parms is bound to the registered dict
Frame(reg, src, name) ==
  [reg |-> reg, src |-> src, name |-> name, shared |-> TRUE, own |-> EmptyMap]
\* the contents of the dict parms refers to
Deref(f) == IF f.shared THEN f.reg[f.src][f.name].parms ELSE f.own
\* a write to the dict parms refers to, which then holds d: it changes the
\* registered dict when parms refers to that one
Store(f, d) ==
  IF f.shared THEN [f EXCEPT !.reg[f.src][f.name].parms = d]
  ELSE [f EXCEPT !.own = d]

\* mutant of copy: parms goes on referring to the registered dict
copyNone(f) == f

\* line 801, parms = parms.copy(): parms refers to a new dict with the
\* items of the old one
copy(f) == [f EXCEPT !.shared = FALSE, !.own = Deref(f)]

\* lines 795-810 for a registered name: the registry and the dict parms
\* refers to when the class is called with it
FactoryFrame(reg, hk, cmdname, mode, kwargs) ==
  LET src == IF cmdname \in DOMAIN reg[mode] THEN mode ELSE "global"
      copied == copy(Frame(reg, src, cmdname))
      merged == Store(copied, Merged(Deref(copied), kwargs))
  IN  Store(merged, WithHooks(Deref(merged), hk, cmdname))

commandfactory(reg, hk, cmdname, mode, kwargs) ==
  LET l == Lookup(reg, cmdname, mode)
  IN  IF Len(l) = 0
      THEN Raise("UnboundLocalError")
      ELSE Construct(l[1].cls, Deref(FactoryFrame(reg, hk, cmdname, mode, kwargs)))

\* what commandfactory logs
FactoryLog(reg, cmdname, mode) ==
  IF Len(Lookup(reg, cmdname, mode)) = 0
  THEN <<"error: there is no command">>
  ELSE <<"debug: cmd parms">>

\* the values the loop over kwargs.items() invokes, by key, with the number
\* of invocations; the loop is not reached when the lookup failed
Invocations(reg, cmdname, mode, kwargs) ==
  IF Len(Lookup(reg, cmdname, mode)) = 0 THEN EmptyMap
  ELSE [k \in {j \in DOMAIN kwargs : Callable(kwargs[j])} |-> 1]

\* COMMANDS after a call: what the writes of lines 802-810 left in it; an
\* unknown name raises at line 801, before any write
RegistryAfter(reg, hk, cmdname, mode, kwargs) ==
  IF Len(Lookup(reg, cmdname, mode)) = 0 THEN reg
  ELSE FactoryFrame(reg, hk, cmdname, mode, kwargs).reg

(***************************************************************************)
(* interpret_commandline(cmdline, mode)                                    *)
(***************************************************************************)
Whitespace == {" ", "\t"}

RECURSIVE LStrip(_)
LStrip(s) == IF s # <<>> /\ Head(s) \in Whitespace THEN LStrip(Tail(s)) ELSE s

RECURSIVE RStrip(_)
RStrip(s) ==
  IF s # <<>> /\ s[Len(s)] \in Whitespace THEN RStrip(SubSeq(s, 1, Len(s) - 1)) ELSE s

\* str.strip()
Strip(s) == RStrip(LStrip(s))

\* index of the first ' ' of s, 0 when there is none
FirstSpace(s) ==
  IF \E i \in 1..Len(s) : s[i] = " "
  THEN CHOOSE i \in 1..Len(s) : s[i] = " " /\ \A j \in 1..(i - 1) : s[j] # " "
  ELSE 0

\* mutant of Split1: split at the first run of whitespace, as s.split(None, 1)
Split1Run(s) ==
  IF \A i \in 1..Len(s) : s[i] \notin Whitespace THEN <<s>>
  ELSE LET i == CHOOSE i \in 1..Len(s) :
                  s[i] \in Whitespace /\ \A j \in 1..(i - 1) : s[j] \notin Whitespace
       IN  <<SubSeq(s, 1, i - 1), LStrip(SubSeq(s, i + 1, Len(s)))>>

\* s.split(' ', 1)
Split1(s) ==
  IF FirstSpace(s) = 0 THEN <<s>>
  ELSE <<SubSeq(s, 1, FirstSpace(s) - 1), SubSeq(s, FirstSpace(s) + 1, Len(s))>>

\* lines 820-825: (cmd, params) of a command line
Parse(cmdline) ==
  LET args == Split1(Strip(cmdline))
  IN  [cmd |-> args[1], params |-> IF Len(args) > 1 THEN args[2] ELSE <<>>]

\* mutant of Unalias: the expansion of an alias is unfolded again
UnaliasTwice(al, cmd) ==
  IF cmd \in DOMAIN al
  THEN IF al[cmd] \in DOMAIN al THEN al[al[cmd]] ELSE al[cmd]
  ELSE cmd

\* lines 827-829: unfold aliases
Unalias(al, cmd) == IF cmd \in DOMAIN al THEN al[cmd] ELSE cmd

\* lines 831-834: allow to shellescape without a space after '!'
Shellescape(a) ==
  IF a.cmd # <<>> /\ Head(a.cmd) = "!"
  THEN [cmd |-> <<"shellescape">>, params |-> Tail(a.cmd) \o <<" ">> \o a.params]
  ELSE a

\* (cmd, params) after alias substitution and the '!' rewrite
Rewritten(al, cmdline) ==
  LET a == Parse(cmdline)
  IN  Shellescape([cmd |-> Unalias(al, a.cmd), params |-> a.params])

\* mutant of Visible: a name registered in any mode is visible
VisibleAnywhere(reg, cmd, mode) ==
  Len(cmd) = 1 /\ cmd[1] \in UNION {DOMAIN reg[m] : m \in DOMAIN reg}

\* line 837: cmd in COMMANDS[mode] or cmd in COMMANDS['global']
Visible(reg, cmd, mode) ==
  Len(cmd) = 1 /\ cmd[1] \in DOMAIN reg[mode] \cup DOMAIN reg["global"]

HomeDir == "/home/user/"

\* os.path.expanduser
expanduser(path) ==
  IF path # <<>> /\ Head(path) = "~/" THEN <<HomeDir>> \o Tail(path) ELSE path

\* mutant of isfile: the path is not checked
isfileAlways(fs, path) == TRUE

\* os.path.isfile
isfile(fs, path) == path \in fs

\* lines 868-873
NoParams ==
  {"exit", "flush", "pyshell", "taglist", "close", "compose", "openfocussed",
   "closefocussed", "bnext", "bprevious", "retag", "refresh", "bufferlist",
   "refineprompt", "reply", "forward", "groupreply", "bounce", "openthread",
   "send", "reedit", "select", "retagprompt"}

\* mutant of Bare: a command without parameters is dispatched whatever follows
BareAnyRest(cmd, params) == IF cmd \in NoParams THEN <<EmptyMap>> ELSE <<>>

\* lines 868-876: a command without parameters is dispatched when nothing
\* follows its name
Bare(cmd, params) == IF params = <<>> /\ cmd \in NoParams THEN <<EmptyMap>> ELSE <<>>

\* lines 841-876: the keyword arguments of the commandfactory call made for
\* a visible cmd, as a sequence of one mapping; empty when no call is made
Mapping(fs, cmd, params) ==
  CASE cmd = "search" -> <<"query" :> PyStr(params)>>
    [] cmd = "compose" -> <<"headers" :> PyDictTo(params)>>
    [] cmd = "prompt" -> <<"startstring" :> PyStr(params)>>
    [] cmd = "refine" -> <<"query" :> PyStr(params)>>
    [] cmd = "retag" -> <<"tagsstring" :> PyStr(params)>>
    [] cmd = "subject" -> <<"key" :> PyStr(<<"Subject">>) @@ "value" :> PyStr(params)>>
    [] cmd = "shellescape" -> <<"commandstring" :> PyStr(params)>>
    [] cmd = "to" -> <<"key" :> PyStr(<<"To">>) @@ "value" :> PyStr(params)>>
    [] cmd = "toggletag" -> <<"tag" :> PyStr(params)>>
    [] cmd = "fold" -> <<"all" :> PyBool(params = <<"all">>)>>
    [] cmd = "unfold" -> <<"all" :> PyBool(params = <<"all">>)>>
    [] cmd = "edit" ->
         IF isfile(fs, expanduser(params))
         THEN <<"path" :> PyStr(expanduser(params))>>
         ELSE <<>>
    [] OTHER -> Bare(cmd, params)

\* the commandfactory calls interpret_commandline makes: none or one
FactoryCalls(reg, al, fs, cmdline, mode) ==
  IF cmdline = <<>> THEN <<>>
  ELSE LET a == Rewritten(al, cmdline)
       IN  IF ~Visible(reg, a.cmd, mode) THEN <<>>
           ELSE LET kw == Mapping(fs, a.cmd[1], a.params)
                IN  IF Len(kw) = 0 THEN <<>>
                    ELSE <<[name |-> a.cmd[1], mode |-> mode, kwargs |-> kw[1]]>>

\* mutant of interpret_commandline: the '!' test reads cmd[0], which fails
\* on an empty cmd
InterpretIndexingCmd(reg, hk, al, fs, cmdline, mode) ==
  IF cmdline # <<>> /\ Unalias(al, Parse(cmdline).cmd) = <<>>
  THEN Raise("IndexError")
  ELSE LET c == FactoryCalls(reg, al, fs, cmdline, mode)
       IN  IF Len(c) = 0 THEN Nothing
           ELSE commandfactory(reg, hk, c[1].name, c[1].mode, c[1].kwargs)

interpret_commandline(reg, hk, al, fs, cmdline, mode) ==
  LET c == FactoryCalls(reg, al, fs, cmdline, mode)
  IN  IF Len(c) = 0 THEN Nothing
      ELSE commandfactory(reg, hk, c[1].name, c[1].mode, c[1].kwargs)

\* what interpret_commandline and the commandfactory call it makes log
InterpretLog(reg, al, fs, cmdline, mode) ==
  IF cmdline = <<>> THEN <<>>
  ELSE LET a == Rewritten(al, cmdline)
           c == FactoryCalls(reg, al, fs, cmdline, mode)
       IN  <<"debug: got commandline">>
           \o (IF ~Visible(reg, a.cmd, mode) THEN <<"debug: unknown command">> ELSE <<>>)
           \o (IF Len(c) = 0 THEN <<>> ELSE FactoryLog(reg, c[1].name, c[1].mode))

(***************************************************************************)
(* Inputs of the calls.                                                    *)
(***************************************************************************)
\* names given to commandfactory: every registered name and an unknown one
FactoryNames == AllNames \cup {"nonexistent"}

KwKeys == {"tag", "key", "query", "path", "prehook"}
KwVals == {PyStr(<<"urgent">>), PyStr(<<>>), Deferred(PyStr(<<"selected">>))}

\* the call-site parameter mappings with at most MaxKwargs keys
KwargSets ==
  UNION {[K -> KwVals] : K \in {S \in SUBSET KwKeys : Cardinality(S) <= MaxKwargs}}

\* command lines: optional leading space, a first atom, a tail of atoms
Pads == {<<>>, <<" ">>}
Heads == {<<>>} \cup {<<n>> : n \in AllNames \cup {"bogus", "q", "a", "b", "!"}}
TailAtoms == {" ", "\t", "all", "x", "~/"}
Tails == UNION {[1..n -> TailAtoms] : n \in 0..MaxTail}
Lines == {p \o h \o t : p \in Pads, h \in Heads, t \in Tails}

NoCall == [op |-> "", name |-> "", line |-> <<>>, mode |-> "", kwargs |-> EmptyMap]

(***************************************************************************)
(* The state machine: the caller (the UI) calls commandfactory or          *)
(* interpret_commandline and takes the result.                             *)
(***************************************************************************)
\* no command is being applied
NoUi == [phase |-> "none"]
NoLast == [op |-> "none"]
NoExt == [phase |-> "none"]

\* the dispatch layer after the module is loaded
DispatchInit ==
  /\ registry = COMMANDS
  /\ hooks = ( HookKey("pre_", "search") :> <<"hook", "pre_search">>
            @@ HookKey("post_", "search") :> <<"hook", "post_search">>
            @@ HookKey("pre_", "exit") :> <<"hook", "pre_exit">>
            @@ HookKey("post_", "toggletag") :> <<"hook", "post_toggletag">> )
  /\ aliases = ( <<"q">> :> <<"exit">> @@ <<"a">> :> <<"b">> @@ <<"b">> :> <<"close">> )
  /\ files = {<<"x">>, <<HomeDir, "x">>}
  /\ pc = "idle"
  /\ call = NoCall
  /\ ret = Nothing
  /\ logged = <<>>
  /\ calls = <<>>
  /\ invoked = EmptyMap

Init == DispatchInit /\ ui = NoUi /\ last = NoLast /\ ext = NoExt

CallCommandfactory ==
  /\ pc = "idle"
  /\ \E n \in FactoryNames, m \in Modes, kw \in KwargSets :
       /\ call' = [op |-> "commandfactory", name |-> n, line |-> <<>>,
                   mode |-> m, kwargs |-> kw]
       /\ ret' = commandfactory(registry, hooks, n, m, kw)
       /\ logged' = FactoryLog(registry, n, m)
       /\ calls' = <<[name |-> n, mode |-> m, kwargs |-> kw]>>
       /\ invoked' = Invocations(registry, n, m, kw)
       /\ registry' = RegistryAfter(registry, hooks, n, m, kw)
  /\ pc' = "returned"
  /\ UNCHANGED <<hooks, aliases, files, ui, last, ext>>

CallInterpret ==
  /\ pc = "idle"
  /\ \E l \in Lines, m \in Modes :
       /\ call' = [op |-> "interpret_commandline", name |-> "", line |-> l,
                   mode |-> m, kwargs |-> EmptyMap]
       /\ ret' = interpret_commandline(registry, hooks, aliases, files, l, m)
       /\ logged' = InterpretLog(registry, aliases, files, l, m)
       /\ calls' = FactoryCalls(registry, aliases, files, l, m)
       /\ invoked' = IF Len(calls') = 0 THEN EmptyMap
                     ELSE Invocations(registry, calls'[1].name, calls'[1].mode,
                                      calls'[1].kwargs)
       /\ registry' = IF Len(calls') = 0 THEN registry
                      ELSE RegistryAfter(registry, hooks, calls'[1].name, calls'[1].mode,
                                         calls'[1].kwargs)
  /\ pc' = "returned"
  /\ UNCHANGED <<hooks, aliases, files, ui, last, ext>>

\* the caller has taken the result and is ready for the next call
Return ==
  /\ pc = "returned"
  /\ pc' = "idle"
  /\ call' = NoCall
  /\ ret' = Nothing
  /\ logged' = <<>>
  /\ calls' = <<>>
  /\ invoked' = EmptyMap
  /\ UNCHANGED <<registry, hooks, aliases, files, ui, last, ext>>

Next == CallCommandfactory \/ CallInterpret \/ Return

Spec == Init /\ [][Next]_vars

(***************************************************************************)
(* The open buffers of the UI.                                             *)
(*                                                                         *)
(*   buffers         the open buffers in the order of ui.buffers, each     *)
(*                   with its identity, its type and, for a search         *)
(*                   buffer, its querystring                               *)
(*   current_buffer  the identity of the focused buffer                    *)
(***************************************************************************)
MaxOpen == 3

\* the query strings searched for
Queries == {<<>>, <<"x">>, <<"tag:inbox">>}

Buffer(id, type, querystring) == [id |-> id, type |-> type, querystring |-> querystring]
BufferIds(u) == {u.buffers[i].id : i \in 1..Len(u.buffers)}
\* the identity of a newly made buffer object
FreshId(u) == CHOOSE i \in 1..(Len(u.buffers) + 1) : i \notin BufferIds(u)

\* ui.get_buffers_of_type(t)
get_buffers_of_type(u, t) == SelectSeq(u.buffers, LAMBDA b : b.type = t)
\* ui.buffer_open(b): the buffer is added to ui.buffers and focused
buffer_open(u, b) == [u EXCEPT !.buffers = Append(@, b), !.current_buffer = b.id]
\* ui.buffer_focus(b)
buffer_focus(u, id) == [u EXCEPT !.current_buffer = id]
\* ui.buffer_close(b): the buffer leaves ui.buffers; when it had the focus,
\* the buffer `next` of the remaining ones gets it
buffer_close(u, id, next) ==
  [u EXCEPT !.buffers = SelectSeq(@, LAMBDA b : b.id # id),
            !.current_buffer = IF @ = id THEN next ELSE @]

\* the last search buffer of the list with that querystring; 0 for None
RECURSIVE ToBeFocused(_, _, _)
ToBeFocused(open_searches, query, to_be_focused) ==
  IF open_searches = <<>> THEN to_be_focused
  ELSE ToBeFocused(Tail(open_searches), query,
                   IF Head(open_searches).querystring = query
                   THEN Head(open_searches).id ELSE to_be_focused)

\* SearchCommand.apply that opens a buffer whatever is open
SearchCommand_applyNew(u, query, force_new) ==
  buffer_open(u, Buffer(FreshId(u), "search", query))

\* SearchCommand.apply(ui)
SearchCommand_apply(u, query, force_new) ==
  IF ~force_new
  THEN LET to_be_focused == ToBeFocused(get_buffers_of_type(u, "search"), query, 0)
       IN  IF to_be_focused # 0
           THEN buffer_focus(u, to_be_focused)
           ELSE buffer_open(u, Buffer(FreshId(u), "search", query))
  ELSE buffer_open(u, Buffer(FreshId(u), "search", query))

\* BufferCloseCommand.apply(ui); buffer is 0 for None, selected is what
\* get_selected_buffer() of the focused buffer list returns
BufferCloseCommand_apply(u, buffer, focussed, selected, next) ==
  LET b == IF focussed THEN selected
           ELSE IF buffer = 0 THEN u.current_buffer ELSE buffer
      closed == buffer_close(u, b, next)
  IN  buffer_focus(closed, closed.current_buffer)

\* BufferFocusCommand.apply(ui); buffer is 0 for None, selected is what
\* get_selected_buffer() of the focused buffer list returns
BufferFocusCommand_apply(u, buffer, offset, selected) ==
  IF offset # 0
  THEN LET idx == CHOOSE i \in 1..Len(u.buffers) : u.buffers[i].id = u.current_buffer
           num == Len(u.buffers)
       IN  buffer_focus(u, u.buffers[((idx - 1 + offset) % num) + 1].id)
  ELSE buffer_focus(u, IF buffer = 0 THEN selected ELSE buffer)

\* the position in ui.buffers of the focused buffer
Focused(u) == CHOOSE i \in 1..Len(u.buffers) : u.buffers[i].id = u.current_buffer

\* RefineCommand.apply(ui), as it changes the focused search buffer
RefineCommand_applyBuffers(u, querystring) ==
  IF querystring \notin {PyNone, u.buffers[Focused(u)].querystring}
  THEN [u EXCEPT !.buffers[Focused(u)].querystring = querystring]
  ELSE u

\* TagListCommand.apply(ui): the new buffer is appended and focused
TagListCommand_apply(u) ==
  LET buf == Buffer(FreshId(u), "taglist", <<>>)
  IN  buffer_focus([u EXCEPT !.buffers = Append(@, buf)], buf.id)

\* OpenBufferlistCommand.apply(ui)
OpenBufferlistCommand_apply(u) ==
  LET blists == get_buffers_of_type(u, "bufferlist")
  IN  IF blists # <<>>
      THEN buffer_focus(u, blists[1].id)
      ELSE buffer_open(u, Buffer(FreshId(u), "bufferlist", <<>>))

\* OpenThreadCommand.apply(ui), as it changes the list of open buffers
OpenThreadCommand_applyBuffers(u) == buffer_open(u, Buffer(FreshId(u), "thread", <<>>))

\* EnvelopeOpenCommand.apply(ui)
EnvelopeOpenCommand_apply(u) == buffer_open(u, Buffer(FreshId(u), "envelope", <<>>))

\* the tags of the index, which a tag list shows: what get_selected_tag() returns
SelectableTags == {"inbox"}
\* 'tag:%s' % tagstring
TagQuery(tagstring) == <<"tag:" \o tagstring>>
\* TaglistSelectCommand.apply(ui): the SearchCommand it makes has no hooks,
\* its apply runs
TaglistSelectCommand_apply(u, tagstring) ==
  SearchCommand_apply(u, TagQuery(tagstring), FALSE)

\* the focused buffer has that type
FocusedType(u, type) ==
  \E i \in 1..Len(u.buffers) :
    u.buffers[i].id = u.current_buffer /\ u.buffers[i].type = type
\* the buffers ui.buffer_close can focus when the buffer id is closed
NextAfter(u, id) ==
  IF id = u.current_buffer THEN BufferIds(u) \ {id} ELSE {u.current_buffer}

(***************************************************************************)
(* Commands applied to the UI: the index and its lock.                     *)
(*                                                                         *)
(* While store commands are applied, ui is a record:                       *)
(*   readonly   the index is open read-only                                *)
(*   lockLeft   how many more flush attempts may find the index locked     *)
(*   timeout    the configured general.flush_retry_timeout                 *)
(*   buffers, current_buffer   as above                                    *)
(*   tags       the tags of the selected thread and of its selected        *)
(*              message                                                    *)
(*   others_unread  the other messages of the thread tagged unread         *)
(*   results    for each open search buffer, whether the thread has a      *)
(*              line in it (listed) and its result_count                   *)
(*   alarms     the callbacks waiting in the main loop, with their delays  *)
(*   notes      the notifications shown, oldest first                      *)
(*   updates    how many times ui.update() ran                             *)
(*   flushes    how many times dbman.flush() went through                  *)
(*   rebuilt    how many times the line of the thread in the focused       *)
(*              search buffer was built again                              *)
(*   logs       the levels of the log lines written                        *)
(*   cmds       the FlushCommand objects made so far: for each, whether it *)
(*              is new, waiting for its alarm or committed, and how often  *)
(*              its apply ran                                              *)
(*   applied    how many commands the user applied                         *)
(*   exc        the exception in flight; after an apply, the exception     *)
(*              that left it ("" for none)                                 *)
(***************************************************************************)
MaxLocked == 2
MaxApplied == 2

\* the values general.flush_retry_timeout is configured to
Timeouts == {1, 5}
\* thread.get_total_messages() of the selected thread
TotalMessages == 2
\* the tags ToggleThreadTagCommand is applied with
Tags == {<<"inbox">>, <<"urgent">>}
\* the message widgets of a thread buffer: 0 is the selected one
Widgets == 0..(TotalMessages - 1)
\* the FlushCommand objects a run can make: one for an apply, one for each
\* unread message FoldMessagesCommand meets
MaxCmds == MaxApplied + TotalMessages - 1
\* the tagsstring parameters retag is applied with
TagStrings == {<<>>, <<"urgent">>, <<"inbox", ",", "urgent">>, <<",", "inbox">>}

Note(text, args, priority) == [text |-> text, args |-> args, priority |-> priority]
Alarm(c, delay) == [cmd |-> c, delay |-> delay]
Alarms == [cmd : 1..MaxCmds, delay : Timeouts]

\* ui.notify(message) and ui.notify(message, priority='error')
notify(u, text, args, priority) == [u EXCEPT !.notes = Append(@, Note(text, args, priority))]
\* ui.update()
update(u) == [u EXCEPT !.updates = @ + 1]
\* ui.mainloop.set_alarm_in(timeout, f), f running apply of command c again
set_alarm_in(u, delay, c) == [u EXCEPT !.alarms = @ \cup {Alarm(c, delay)}]
\* ui.logger.info(..) and ui.logger.debug(..)
log(u, level) == [u EXCEPT !.logs = Append(@, level)]

\* ui.dbman.flush(): raises DatabaseLockedError while the index is locked
flush(u, locked) ==
  IF locked THEN [u EXCEPT !.lockLeft = @ - 1, !.exc = "DatabaseLockedError"]
            ELSE [u EXCEPT !.flushes = @ + 1]

\* FlushCommand.apply that stops retrying after its second attempt
FlushCommand_applyCapped(u, c, locked) ==
  LET f == flush([u EXCEPT !.cmds[c].tries = @ + 1], locked)
  IN  IF f.exc = "DatabaseLockedError"
      THEN LET caught == [f EXCEPT !.exc = "", !.cmds[c].state = "waiting"]
               again  == IF caught.cmds[c].tries < 2
                         THEN set_alarm_in(caught, caught.timeout, c) ELSE caught
           IN  update(notify(again, "index locked, will try again in %d secs",
                             <<caught.timeout>>, "default"))
      ELSE [f EXCEPT !.cmds[c].state = "committed"]

\* FlushCommand.apply that lets the locked condition leave it
FlushCommand_applyRaising(u, c, locked) ==
  LET f == flush([u EXCEPT !.cmds[c].tries = @ + 1], locked)
  IN  IF f.exc = "DatabaseLockedError"
      THEN [f EXCEPT !.cmds[c].state = "waiting"]
      ELSE [f EXCEPT !.cmds[c].state = "committed"]

\* FlushCommand.apply(ui) of the FlushCommand object c
FlushCommand_apply(u, c, locked) ==
  LET f == flush([u EXCEPT !.cmds[c].tries = @ + 1], locked)
  IN  IF f.exc = "DatabaseLockedError"
      THEN LET caught == [f EXCEPT !.exc = "", !.cmds[c].state = "waiting"]
           IN  update(notify(set_alarm_in(caught, caught.timeout, c),
                             "index locked, will try again in %d secs",
                             <<caught.timeout>>, "default"))
      ELSE [f EXCEPT !.cmds[c].state = "committed"]

\* FlushCommand(): a new command object
FlushCommand(u) == [u EXCEPT !.cmds = Append(@, [state |-> "new", tries |-> 0])]

\* ui.apply_command(FlushCommand()): the new command has no hooks, its apply runs
apply_command(u, locked) ==
  LET n == FlushCommand(u) IN FlushCommand_apply(n, Len(n.cmds), locked)

\* thread.add_tags, thread.remove_tags, thread.set_tags: the index refuses
\* a change when it is open read-only
set_tags(u, tags) ==
  IF u.readonly THEN [u EXCEPT !.exc = "DatabaseROError"] ELSE [u EXCEPT !.tags = tags]

\* the rest of ToggleThreadTagCommand.apply, from the flush on
ToggleThreadTagCommand_rest(u, locked, matches) ==
  LET flushed == apply_command(u, locked)
  IN  IF flushed.exc # "" THEN flushed
      ELSE IF FocusedType(flushed, "search")
      THEN (LET redrawn == [flushed EXCEPT !.rebuilt = @ + 1]
            IN  IF ~matches
                THEN update([log(redrawn, "debug") EXCEPT
                               !.results[u.current_buffer] =
                                  [listed |-> FALSE,
                                   result_count |-> @.result_count - TotalMessages]])
                ELSE redrawn)
      ELSE flushed

\* ToggleThreadTagCommand.apply that goes on after the notification
ToggleThreadTagCommand_applyNoReturn(u, tag, locked, matches) ==
  LET t == set_tags(u, IF tag \in u.tags THEN u.tags \ {tag} ELSE u.tags \cup {tag})
  IN  IF t.exc = "DatabaseROError"
      THEN ToggleThreadTagCommand_rest(
             notify([t EXCEPT !.exc = ""], "index in read-only mode", <<>>, "error"),
             locked, matches)
      ELSE ToggleThreadTagCommand_rest(t, locked, matches)

\* ToggleThreadTagCommand.apply that adds the tag whether it is there or not
ToggleThreadTagCommand_applyAdd(u, tag, locked, matches) ==
  LET t == set_tags(u, u.tags \cup {tag})
  IN  IF t.exc = "DatabaseROError"
      THEN notify([t EXCEPT !.exc = ""], "index in read-only mode", <<>>, "error")
      ELSE ToggleThreadTagCommand_rest(t, locked, matches)

\* ToggleThreadTagCommand.apply(ui) on the selected thread
ToggleThreadTagCommand_apply(u, tag, locked, matches) ==
  LET t == set_tags(u, IF tag \in u.tags THEN u.tags \ {tag} ELSE u.tags \cup {tag})
  IN  IF t.exc = "DatabaseROError"
      THEN notify([t EXCEPT !.exc = ""], "index in read-only mode", <<>>, "error")
      ELSE ToggleThreadTagCommand_rest(t, locked, matches)

\* tagsstring.split(',')
RECURSIVE SplitComma(_)
SplitComma(s) ==
  IF \E i \in 1..Len(s) : s[i] = ","
  THEN LET i == CHOOSE k \in 1..Len(s) : s[k] = "," /\ \A j \in 1..(k-1) : s[j] # ","
       IN  <<SubSeq(s, 1, i - 1)>> \o SplitComma(SubSeq(s, i + 1, Len(s)))
  ELSE <<s>>

\* filter(lambda x: x, tagsstring.split(',')), as the set set_tags stores
TagsOf(tagsstring) ==
  LET pieces == SplitComma(tagsstring)
  IN  {pieces[i] : i \in {k \in 1..Len(pieces) : pieces[k] # <<>>}}

\* RetagCommand.apply(ui) on the selected thread of a search buffer; the
\* tags set on a thread are the tags of each of its messages
RetagCommand_apply(u, tagsstring, locked) ==
  LET t == set_tags(log(u, "info"), TagsOf(tagsstring))
  IN  IF t.exc = "DatabaseROError"
      THEN notify([t EXCEPT !.exc = ""], "index in read-only mode", <<>>, "error")
      ELSE LET flushed == apply_command([t EXCEPT !.others_unread = {}], locked)
           IN  IF flushed.exc # "" THEN flushed
               ELSE [flushed EXCEPT !.rebuilt = @ + 1]

\* 'unread' in msg.get_tags() for the message of widget w
unread(u, w) == IF w = 0 THEN <<"unread">> \in u.tags ELSE w \in u.others_unread

\* msg.remove_tags(['unread']) for the message of widget w
remove_tags(u, w) ==
  IF u.readonly THEN [u EXCEPT !.exc = "DatabaseROError"]
  ELSE IF w = 0 THEN [u EXCEPT !.tags = @ \ {<<"unread">>}]
  ELSE [u EXCEPT !.others_unread = @ \ {w}]

\* the loop of FoldMessagesCommand.apply over the widgets in lines; locks
\* says for each of them whether a flush finds the index locked
RECURSIVE FoldLines(_, _, _)
FoldLines(u, lines, locks) ==
  IF lines = <<>> \/ u.exc # "" THEN u
  ELSE IF unread(u, Head(lines))
  THEN LET r == remove_tags(u, Head(lines))
       IN  IF r.exc # "" THEN r
           ELSE FoldLines(apply_command(r, Head(locks) /\ r.lockLeft > 0),
                          Tail(lines), Tail(locks))
  ELSE FoldLines(u, Tail(lines), Tail(locks))

\* FoldMessagesCommand.apply(ui) in a thread buffer: nothing catches the
\* DatabaseROError of remove_tags
FoldMessagesCommand_apply(u, all, locks) ==
  FoldLines(u, IF all THEN [i \in 1..TotalMessages |-> i - 1] ELSE <<0>>, locks)

\* what running its query gives a search buffer: matches says whether the
\* thread, the only one of the index, matches it
Result(matches) ==
  [listed |-> matches, result_count |-> IF matches THEN TotalMessages ELSE 0]

\* the store's view of the open search buffers after a command changed
\* ui.buffers: buffer.SearchBuffer(ui, query) of a new search buffer runs
\* its query, a closed buffer is forgotten
listing(u, matches) ==
  [u EXCEPT !.results =
     [b \in {u.buffers[i].id : i \in {k \in 1..Len(u.buffers) :
                                           u.buffers[k].type = "search"}} |->
        IF b \in DOMAIN u.results THEN u.results[b] ELSE Result(matches)]]

\* ui.current_buffer.rebuild(): a search buffer runs its query again and
\* builds its lines anew; of the other buffers nothing is followed
rebuild(u, matches) ==
  IF FocusedType(u, "search")
  THEN [u EXCEPT !.results[u.current_buffer] = Result(matches),
                 !.rebuilt = IF matches THEN @ + 1 ELSE @]
  ELSE u

\* RefreshCommand.apply(ui)
RefreshCommand_apply(u, matches) == update(rebuild(u, matches))

\* RefineCommand.apply(ui) in a search buffer
RefineCommand_apply(u, querystring, matches) ==
  IF querystring \notin {PyNone, u.buffers[Focused(u)].querystring}
  THEN update(rebuild(RefineCommand_applyBuffers(u, querystring), matches))
  ELSE u

\* OpenThreadCommand.apply(ui) on the selected thread of a search buffer
OpenThreadCommand_apply(u) == OpenThreadCommand_applyBuffers(log(u, "info"))

\* whether the next dbman.flush() finds the index locked
LockOutcomes(u) == IF u.lockLeft > 0 THEN BOOLEAN ELSE {FALSE}

\* what is kept of an apply: the command, the tag it was given, the UI
\* before it and, when the apply before it was a ToggleThreadTagCommand's,
\* the tag that one was given and the tags it found
Applied(op, c, locked) ==
  [op |-> op, cmd |-> c, locked |-> locked, tag |-> <<>>, pre |-> ui,
   prev |-> IF last.op = "toggletag"
            THEN [op |-> last.op, tag |-> last.tag, tags |-> last.pre.tags]
            ELSE [op |-> "none", tag |-> <<>>, tags |-> {}]]
\* of a command that makes no FlushCommand and changes no tag nothing is
\* kept but the UI u it left
Other(u) ==
  [op |-> "other", cmd |-> 0, locked |-> FALSE, tag |-> <<>>, pre |-> u,
   prev |-> [op |-> "none", tag |-> <<>>, tags |-> {}]]
\* the thread is selected in the focused buffer: a thread buffer, or a
\* search buffer that lists it
ThreadSelected(u) ==
  \/ FocusedType(u, "thread")
  \/ FocusedType(u, "search") /\ u.results[u.current_buffer].listed
\* the FlushCommand object an apply made, 0 if it made none
MadeBy(u) == IF Len(u.cmds) > Len(ui.cmds) THEN Len(u.cmds) ELSE 0

StoreInit ==
  /\ DispatchInit
  /\ \E opened \in BOOLEAN :
     ui \in [phase : {"store"}, readonly : BOOLEAN, lockLeft : {MaxLocked},
             timeout : Timeouts,
             buffers : {<<Buffer(1, "search", <<"tag:inbox">>)>>
                          \o (IF opened THEN <<Buffer(2, "thread", <<>>)>> ELSE <<>>)},
             current_buffer : {IF opened THEN 2 ELSE 1},
             results : {(1 :> Result(TRUE))},
             tags : {{<<"inbox">>}, {<<"inbox">>, <<"unread">>}},
             others_unread : SUBSET (Widgets \ {0}),
             alarms : {{}}, notes : {<<>>},
             updates : {0}, flushes : {0}, rebuilt : {0}, logs : {<<>>},
             cmds : {<<>>}, applied : {0}, exc : {""}]
  /\ last = [op |-> "none", cmd |-> 0, locked |-> FALSE, tag |-> <<>>, pre |-> ui,
             prev |-> [op |-> "none", tag |-> <<>>, tags |-> {}]]
  /\ ext = NoExt

\* the user applies a FlushCommand
ApplyFlush ==
  /\ ui.applied < MaxApplied
  /\ \E locked \in LockOutcomes(ui) :
       LET n == FlushCommand([ui EXCEPT !.applied = @ + 1, !.exc = ""])
       IN  /\ ui' = FlushCommand_apply(n, Len(n.cmds), locked)
           /\ last' = Applied("flush", Len(n.cmds), locked)
  /\ UNCHANGED <<dispatchVars, ext>>

\* the main loop runs the callback of an alarm: apply of the same command
AlarmFires(a) ==
  /\ a \in ui.alarms
  /\ \E locked \in LockOutcomes(ui) :
       /\ ui' = FlushCommand_apply([ui EXCEPT !.alarms = @ \ {a}, !.exc = ""],
                                   a.cmd, locked)
       /\ last' = Applied("alarm", a.cmd, locked)
  /\ UNCHANGED <<dispatchVars, ext>>

\* the user applies a ToggleThreadTagCommand to the selected thread
ApplyToggleTag ==
  /\ ui.applied < MaxApplied
  /\ ThreadSelected(ui)
  /\ \E tag \in Tags, locked \in LockOutcomes(ui), matches \in BOOLEAN :
       LET u == ToggleThreadTagCommand_apply([ui EXCEPT !.applied = @ + 1, !.exc = ""],
                                             tag, locked, matches)
       IN  /\ ui' = u
           /\ last' = [Applied("toggletag", MadeBy(u), locked) EXCEPT !.tag = tag]
  /\ UNCHANGED <<dispatchVars, ext>>

\* the user applies a RetagCommand in a search buffer
ApplyRetag ==
  /\ ui.applied < MaxApplied
  /\ FocusedType(ui, "search") /\ ThreadSelected(ui)
  /\ \E tagsstring \in TagStrings, locked \in LockOutcomes(ui) :
       LET u == RetagCommand_apply([ui EXCEPT !.applied = @ + 1, !.exc = ""],
                                   tagsstring, locked)
       IN  /\ ui' = u
           /\ last' = Applied("retag", MadeBy(u), locked)
  /\ UNCHANGED <<dispatchVars, ext>>

\* the user applies a FoldMessagesCommand in a thread buffer
ApplyFold ==
  /\ ui.applied < MaxApplied
  /\ FocusedType(ui, "thread")
  /\ \E all \in BOOLEAN, locks \in [1..TotalMessages -> LockOutcomes(ui)] :
       LET u == FoldMessagesCommand_apply([ui EXCEPT !.applied = @ + 1, !.exc = ""],
                                          all, locks)
           c == MadeBy(u)
       IN  /\ ui' = u
           /\ last' = Applied("fold", c, c # 0 /\ u.cmds[c].state = "waiting")
  /\ UNCHANGED <<dispatchVars, ext>>

\* refresh: the user applies a RefreshCommand
ApplyRefresh ==
  /\ ui.applied < MaxApplied
  /\ \E matches \in BOOLEAN :
       ui' = RefreshCommand_apply([ui EXCEPT !.applied = @ + 1, !.exc = ""], matches)
  /\ last' = Other(ui')
  /\ UNCHANGED <<dispatchVars, ext>>

\* refine: the user applies a RefineCommand in a search buffer
ApplyRefine ==
  /\ ui.applied < MaxApplied
  /\ FocusedType(ui, "search")
  /\ \E querystring \in Queries \cup {PyNone}, matches \in BOOLEAN :
       ui' = RefineCommand_apply([ui EXCEPT !.applied = @ + 1, !.exc = ""],
                                 querystring, matches)
  /\ last' = Other(ui')
  /\ UNCHANGED <<dispatchVars, ext>>

\* openthread: the user opens the selected thread of a search buffer
ApplyOpenThread ==
  /\ ui.applied < MaxApplied
  /\ Len(ui.buffers) < MaxOpen
  /\ FocusedType(ui, "search") /\ ThreadSelected(ui)
  /\ ui' = OpenThreadCommand_apply([ui EXCEPT !.applied = @ + 1, !.exc = ""])
  /\ last' = Other(ui')
  /\ UNCHANGED <<dispatchVars, ext>>

\* search: the user applies a SearchCommand, made from a command line and
\* so with force_new false
StoreSearch ==
  /\ ui.applied < MaxApplied
  /\ \E query \in Queries, force_new \in {FALSE}, matches \in BOOLEAN :
       LET u == SearchCommand_apply([ui EXCEPT !.applied = @ + 1, !.exc = ""],
                                    query, force_new)
       IN  Len(u.buffers) <= MaxOpen /\ ui' = listing(u, matches)
  /\ last' = Other(ui')
  /\ UNCHANGED <<dispatchVars, ext>>

\* select in a tag list: the user searches for the selected tag
StoreTaglistSelect ==
  /\ ui.applied < MaxApplied
  /\ FocusedType(ui, "taglist")
  /\ \E tagstring \in SelectableTags, matches \in BOOLEAN :
       LET u == TaglistSelectCommand_apply([ui EXCEPT !.applied = @ + 1, !.exc = ""],
                                           tagstring)
       IN  Len(u.buffers) <= MaxOpen /\ ui' = listing(u, matches)
  /\ last' = Other(ui')
  /\ UNCHANGED <<dispatchVars, ext>>

\* close, and closefocussed in a buffer list: the user closes the focused
\* buffer or the one selected in the list; the last open buffer is not
\* closed in the runs followed
StoreClose ==
  /\ ui.applied < MaxApplied
  /\ Len(ui.buffers) > 1
  /\ \E focussed \in {FALSE} \cup {FocusedType(ui, "bufferlist")},
        selected \in BufferIds(ui) :
       \E next \in NextAfter(ui, IF focussed THEN selected ELSE ui.current_buffer) :
         ui' = listing(BufferCloseCommand_apply(
                         [ui EXCEPT !.applied = @ + 1, !.exc = ""],
                         0, focussed, selected, next), FALSE)
  /\ last' = Other(ui')
  /\ UNCHANGED <<dispatchVars, ext>>

\* bnext and bprevious, and openfocussed in a buffer list: the user moves
\* the focus by an offset or to the buffer selected in the list
StoreFocus ==
  /\ ui.applied < MaxApplied
  /\ \E offset \in {1, -1} \cup (IF FocusedType(ui, "bufferlist") THEN {0} ELSE {}),
        selected \in BufferIds(ui) :
       ui' = BufferFocusCommand_apply([ui EXCEPT !.applied = @ + 1, !.exc = ""],
                                      0, offset, selected)
  /\ last' = Other(ui')
  /\ UNCHANGED <<dispatchVars, ext>>

\* taglist: the user applies a TagListCommand
StoreTagList ==
  /\ ui.applied < MaxApplied
  /\ Len(ui.buffers) < MaxOpen
  /\ ui' = TagListCommand_apply([ui EXCEPT !.applied = @ + 1, !.exc = ""])
  /\ last' = Other(ui')
  /\ UNCHANGED <<dispatchVars, ext>>

\* bufferlist: the user applies an OpenBufferlistCommand
StoreOpenBufferlist ==
  /\ ui.applied < MaxApplied
  /\ LET u == OpenBufferlistCommand_apply([ui EXCEPT !.applied = @ + 1, !.exc = ""])
     IN  Len(u.buffers) <= MaxOpen /\ ui' = u
  /\ last' = Other(ui')
  /\ UNCHANGED <<dispatchVars, ext>>

\* an EnvelopeOpenCommand is applied
StoreEnvelopeOpen ==
  /\ ui.applied < MaxApplied
  /\ Len(ui.buffers) < MaxOpen
  /\ ui' = EnvelopeOpenCommand_apply([ui EXCEPT !.applied = @ + 1, !.exc = ""])
  /\ last' = Other(ui')
  /\ UNCHANGED <<dispatchVars, ext>>

StoreNext ==
  \/ ApplyFlush
  \/ \E a \in Alarms : AlarmFires(a)
  \/ ApplyToggleTag
  \/ ApplyRetag
  \/ ApplyFold
  \/ ApplyRefresh
  \/ ApplyRefine
  \/ ApplyOpenThread
  \/ StoreSearch
  \/ StoreTaglistSelect
  \/ StoreClose
  \/ StoreFocus
  \/ StoreTagList
  \/ StoreOpenBufferlist
  \/ StoreEnvelopeOpen

SpecStore == StoreInit /\ [][StoreNext]_vars

\* the retry delay is fixed to one of the configured values: which alarm
\* fires does not depend on it; every message of the thread is unread, so
\* that FoldMessagesCommand makes as many FlushCommand objects as it can
StoreLiveInit ==
  /\ StoreInit
  /\ ui.timeout = 5
  /\ <<"unread">> \in ui.tags
  /\ ui.others_unread = Widgets \ {0}

\* every scheduled alarm eventually fires
SpecStoreLive ==
  /\ StoreLiveInit
  /\ [][StoreNext]_vars
  /\ \A a \in Alarms : WF_vars(AlarmFires(a))

(***************************************************************************)
(* ExternalCommand applied to the UI: worker thread, pipe and main loop.   *)
(*                                                                         *)
(* While an ExternalCommand is applied, ui is a record:                    *)
(*   buffers         the open buffers                                      *)
(*   current_buffer  the focused buffer                                    *)
(*   screen          "started", or "stopped" while a blocking call runs    *)
(*   stops           how often the screen was stopped and started again    *)
(*   shell           whether the main thread is inside code.interact       *)
(*   logs            how many lines ui.logger wrote                        *)
(* and ext is a record:                                                    *)
(*   spawn, refocus, in_thread   the command's fields                      *)
(*   on_success      whether the command has a callable on_success         *)
(*   callerbuffer    the buffer focused when apply ran ("" before)         *)
(*   worker          where thread_code is: "none", "started" (thread       *)
(*                   started, nothing run), "running" (inside              *)
(*                   subprocess.call), "done"                              *)
(*   called          the command line given to subprocess.call             *)
(*   rc              the return code of subprocess.call (-1 before)        *)
(*   pipe            the data written to write_fd and not yet read         *)
(*   events          the calls of on_success and ui.buffer_focus made so   *)
(*                   far, each with the thread that made it                *)
(***************************************************************************)
Buffers == {"search", "thread", "taglist"}
ReturnCodes == {0, 1}
\* how often the screen is stopped before the python shell is no longer opened
MaxShells == 2
\* settings.config.get('general', 'terminal_cmd')
terminal_cmd == <<"x-terminal-emulator", " ", "-e">>
\* the commandstring of the command applied
commandstring == <<"ls">>

Event(op, thread) == [op |-> op, thread |-> thread]
Pair(u, e) == [ui |-> u, ext |-> e]

\* afterwards(data), run by a thread
afterwards(u, e, data, thread) ==
  LET e1 == IF e.on_success /\ data = "success"
            THEN [e EXCEPT !.events = Append(@, Event("on_success", thread))]
            ELSE e
  IN  IF e.refocus /\ e.callerbuffer \in u.buffers
      THEN Pair([u EXCEPT !.logs = @ + 1, !.current_buffer = e.callerbuffer],
                [e1 EXCEPT !.events = Append(@, Event("buffer_focus", thread))])
      ELSE Pair(u, e1)

\* thread_code up to the call of subprocess.call
thread_code_call(u, e) ==
  Pair([u EXCEPT !.logs = @ + 1],
       [e EXCEPT !.worker = "running",
                 !.called = IF e.spawn THEN terminal_cmd \o <<" ">> \o commandstring
                                       ELSE commandstring])

\* thread_code that reports success whatever the return code
thread_code_returnAlways(u, e, returncode, thread) ==
  Pair(u, [e EXCEPT !.worker = "done", !.rc = returncode,
                    !.pipe = Append(@, "success")])

\* thread_code that runs afterwards itself instead of writing to the pipe
thread_code_returnDirect(u, e, returncode, thread) ==
  IF returncode = 0
  THEN afterwards(u, [e EXCEPT !.worker = "done", !.rc = returncode], "success", thread)
  ELSE Pair(u, [e EXCEPT !.worker = "done", !.rc = returncode])

\* thread_code from the return of subprocess.call on, run by a thread
thread_code_return(u, e, returncode, thread) ==
  Pair(u, [e EXCEPT !.worker = "done", !.rc = returncode,
                    !.pipe = IF returncode = 0 THEN Append(@, "success") ELSE @])

\* what has been seen of the calling buffer: whether it had the focus at
\* some moment since the external command ended
Seen(u, e) ==
  [op |-> "external",
   refocused |-> last.refocused \/ (e.worker = "done" /\ u.current_buffer = e.callerbuffer)]

ExtInit ==
  /\ DispatchInit
  /\ last = [op |-> "external", refocused |-> FALSE]
  /\ ui \in [phase : {"ext"}, buffers : {Buffers}, current_buffer : Buffers,
             screen : {"started"}, stops : {0}, shell : {FALSE}, logs : {0}]
  /\ ext \in [phase : {"ext"}, spawn : BOOLEAN, refocus : BOOLEAN,
              in_thread : BOOLEAN, on_success : BOOLEAN, callerbuffer : {""},
              worker : {"none"}, called : {<<>>}, rc : {-1}, pipe : {<<>>},
              events : {<<>>}]

\* the main thread is in the main loop, not inside subprocess.call or
\* code.interact
MainLoopFree == ui.screen = "started"

\* ExternalCommand.apply(ui) on the main thread, up to the start of the
\* worker thread or, when blocking, up to the call of subprocess.call
ApplyExternal ==
  /\ MainLoopFree
  /\ ext.worker = "none"
  /\ LET e == [ext EXCEPT !.callerbuffer = ui.current_buffer]
     IN  IF e.in_thread
         THEN /\ ext' = [e EXCEPT !.worker = "started"]
              /\ ui' = ui
              /\ last' = Seen(ui', ext')
         ELSE LET c == thread_code_call([ui EXCEPT !.screen = "stopped"], e)
              IN  /\ ext' = c.ext
                  /\ ui' = c.ui
                  /\ last' = Seen(ui', ext')
  /\ UNCHANGED dispatchVars

\* the external command exits while the main thread waits in
\* subprocess.call: thread_code finishes and apply starts the screen again
ExternalReturns ==
  /\ ext.worker = "running"
  /\ ~ext.in_thread
  /\ \E returncode \in ReturnCodes :
       LET r == thread_code_return(ui, ext, returncode, "main")
       IN  /\ ext' = r.ext
           /\ ui' = [r.ui EXCEPT !.screen = "started", !.stops = @ + 1]
           /\ last' = Seen(ui', ext')
  /\ UNCHANGED dispatchVars

\* the worker thread starts thread_code and enters subprocess.call
WorkerCalls ==
  /\ ext.worker = "started"
  /\ LET c == thread_code_call(ui, ext)
     IN  ui' = c.ui /\ ext' = c.ext /\ last' = Seen(ui', ext')
  /\ UNCHANGED dispatchVars

\* the external command exits, the worker thread finishes thread_code
WorkerReturns ==
  /\ ext.worker = "running"
  /\ ext.in_thread
  /\ \E returncode \in ReturnCodes :
       LET r == thread_code_return(ui, ext, returncode, "worker")
       IN  ui' = r.ui /\ ext' = r.ext /\ last' = Seen(ui', ext')
  /\ UNCHANGED dispatchVars

\* PythonShellCommand.apply(ui) up to the call of code.interact
PythonShellCommand_apply(u) == [u EXCEPT !.screen = "stopped", !.shell = TRUE]

\* PythonShellCommand.apply(ui) from the return of code.interact on
PythonShellCommand_return(u) ==
  [u EXCEPT !.screen = "started", !.stops = @ + 1, !.shell = FALSE]

\* the user opens the python shell
ApplyPythonShell ==
  /\ MainLoopFree
  /\ ui.stops < MaxShells
  /\ ui' = PythonShellCommand_apply(ui)
  /\ last' = Seen(ui', ext)
  /\ UNCHANGED <<dispatchVars, ext>>

\* the user leaves the python shell
PythonShellReturns ==
  /\ ui.shell
  /\ ui' = PythonShellCommand_return(ui)
  /\ last' = Seen(ui', ext)
  /\ UNCHANGED <<dispatchVars, ext>>

\* the main loop reads the pipe and runs the watch callback
PipeCallback ==
  /\ MainLoopFree
  /\ ext.pipe # <<>>
  /\ LET r == afterwards(ui, [ext EXCEPT !.pipe = Tail(@)], Head(ext.pipe), "main")
     IN  ui' = r.ui /\ ext' = r.ext /\ last' = Seen(ui', ext')
  /\ UNCHANGED dispatchVars

\* the user focuses another buffer while the main loop is free
UserFocuses(b) ==
  /\ MainLoopFree
  /\ b \in ui.buffers
  /\ b # ui.current_buffer
  /\ ui' = [ui EXCEPT !.current_buffer = b]
  /\ last' = Seen(ui', ext)
  /\ UNCHANGED <<dispatchVars, ext>>

\* the user closes the focused buffer, the focus moves to another one
UserCloses(b) ==
  /\ MainLoopFree
  /\ b \in ui.buffers \ {ui.current_buffer}
  /\ ui' = [ui EXCEPT !.buffers = @ \ {ui.current_buffer}, !.current_buffer = b]
  /\ last' = Seen(ui', ext)
  /\ UNCHANGED <<dispatchVars, ext>>

ExtNext ==
  \/ ApplyExternal
  \/ ExternalReturns
  \/ WorkerCalls
  \/ WorkerReturns
  \/ ApplyPythonShell
  \/ PythonShellReturns
  \/ PipeCallback
  \/ \E b \in Buffers : UserFocuses(b)
  \/ \E b \in Buffers : UserCloses(b)

SpecExternal == ExtInit /\ [][ExtNext]_vars

(***************************************************************************)
(* SearchCommand applied to the UI: the list of open buffers.              *)
(*                                                                         *)
(* While searches are applied, ui is the record of buffers and             *)
(* current_buffer.                                                         *)
(***************************************************************************)
\* what is kept of the last apply: whether it was a SearchCommand's, a
\* BufferCloseCommand's or another one's and, of a SearchCommand, its
\* parameters
SearchApplied(op, query, force_new) == [op |-> op, query |-> query, force_new |-> force_new]

SearchInit ==
  /\ DispatchInit
  /\ ui = [phase |-> "search", buffers |-> <<Buffer(1, "taglist", <<>>)>>,
           current_buffer |-> 1]
  /\ last = SearchApplied("none", <<>>, FALSE)
  /\ ext = NoExt

\* a SearchCommand is applied
ApplySearch ==
  /\ \E query \in Queries, force_new \in BOOLEAN :
       LET u == SearchCommand_apply(ui, query, force_new)
       IN  /\ Len(u.buffers) <= MaxOpen
           /\ ui' = u
           /\ last' = SearchApplied("search", query, force_new)
  /\ UNCHANGED <<dispatchVars, ext>>

\* close: the focused buffer is closed; the last open buffer is not closed
\* in the runs followed
ApplyClose ==
  /\ Len(ui.buffers) > 1
  /\ \E next \in NextAfter(ui, ui.current_buffer) :
       ui' = BufferCloseCommand_apply(ui, 0, FALSE, 0, next)
  /\ last' = SearchApplied("close", <<>>, FALSE)
  /\ UNCHANGED <<dispatchVars, ext>>

\* closefocussed, a command of mode bufferlist: the buffer selected in the
\* focused buffer list is closed
ApplyCloseFocussed ==
  /\ Len(ui.buffers) > 1
  /\ FocusedType(ui, "bufferlist")
  /\ \E selected \in BufferIds(ui) : \E next \in NextAfter(ui, selected) :
       ui' = BufferCloseCommand_apply(ui, 0, TRUE, selected, next)
  /\ last' = SearchApplied("close", <<>>, FALSE)
  /\ UNCHANGED <<dispatchVars, ext>>

\* the focus moves with bnext or bprevious
ApplyFocus ==
  /\ \E offset \in {1, -1} : ui' = BufferFocusCommand_apply(ui, 0, offset, 0)
  /\ last' = SearchApplied("other", <<>>, FALSE)
  /\ UNCHANGED <<dispatchVars, ext>>

\* openfocussed, a command of mode bufferlist: the buffer selected in the
\* focused buffer list gets the focus
ApplyOpenFocussed ==
  /\ FocusedType(ui, "bufferlist")
  /\ \E selected \in BufferIds(ui) :
       ui' = BufferFocusCommand_apply(ui, 0, 0, selected)
  /\ last' = SearchApplied("other", <<>>, FALSE)
  /\ UNCHANGED <<dispatchVars, ext>>

\* select, a command of mode taglist: the selected tag is searched for
ApplyTaglistSelect ==
  /\ FocusedType(ui, "taglist")
  /\ \E tagstring \in SelectableTags :
       LET u == TaglistSelectCommand_apply(ui, tagstring)
       IN  /\ Len(u.buffers) <= MaxOpen
           /\ ui' = u
           /\ last' = SearchApplied("search", TagQuery(tagstring), FALSE)
  /\ UNCHANGED <<dispatchVars, ext>>

\* a RefineCommand is applied in a search buffer
ApplyRefineSearch ==
  /\ ui.buffers[Focused(ui)].type = "search"
  /\ \E querystring \in Queries \cup {PyNone} :
       /\ ui' = RefineCommand_applyBuffers(ui, querystring)
       /\ last' = SearchApplied("other", <<>>, FALSE)
  /\ UNCHANGED <<dispatchVars, ext>>

\* a TagListCommand is applied
ApplyTagList ==
  /\ Len(ui.buffers) < MaxOpen
  /\ ui' = TagListCommand_apply(ui)
  /\ last' = SearchApplied("other", <<>>, FALSE)
  /\ UNCHANGED <<dispatchVars, ext>>

\* an OpenBufferlistCommand is applied
ApplyOpenBufferlist ==
  /\ LET u == OpenBufferlistCommand_apply(ui)
     IN  Len(u.buffers) <= MaxOpen /\ ui' = u
  /\ last' = SearchApplied("other", <<>>, FALSE)
  /\ UNCHANGED <<dispatchVars, ext>>

\* the selected thread of a search buffer is opened
ApplyOpenThreadBuffer ==
  /\ Len(ui.buffers) < MaxOpen
  /\ ui.buffers[Focused(ui)].type = "search"
  /\ ui' = OpenThreadCommand_applyBuffers(ui)
  /\ last' = SearchApplied("other", <<>>, FALSE)
  /\ UNCHANGED <<dispatchVars, ext>>

\* an envelope is opened
ApplyEnvelopeOpen ==
  /\ Len(ui.buffers) < MaxOpen
  /\ ui' = EnvelopeOpenCommand_apply(ui)
  /\ last' = SearchApplied("other", <<>>, FALSE)
  /\ UNCHANGED <<dispatchVars, ext>>

SearchNext ==
  \/ ApplySearch
  \/ ApplyClose
  \/ ApplyCloseFocussed
  \/ ApplyFocus
  \/ ApplyOpenFocussed
  \/ ApplyTaglistSelect
  \/ ApplyRefineSearch
  \/ ApplyTagList
  \/ ApplyOpenBufferlist
  \/ ApplyOpenThreadBuffer
  \/ ApplyEnvelopeOpen

SpecSearch == SearchInit /\ [][SearchNext]_vars

(***************************************************************************)
(* The envelope commands applied to the UI: mails, accounts and            *)
(* notifications.                                                          *)
(*                                                                         *)
(* While an envelope is open, ui is a record:                              *)
(*   buffers, current_buffer   as above; the buffers are thread buffers    *)
(*              and envelopes                                              *)
(*   message    the mail object of the selected message of the thread      *)
(*              buffer                                                     *)
(*   email      for each open envelope, the mail object it shows           *)
(*   mails      for each mail object that the message, an envelope or a    *)
(*              waiting editor callback refers to, its headers among       *)
(*              From, To and Subject: From with its value, the values of   *)
(*              To and Subject are not followed.  A mail object has other  *)
(*              headers too and is never taken for None                    *)
(*   edits      the editors started by EnvelopeEditCommand whose callback  *)
(*              has not run yet: the mail object edited and openNew        *)
(*   accounts   the addresses that have an account                         *)
(*   notes      the notifications issued, oldest first                     *)
(*   sticky     the positions in notes of the notifications with           *)
(*              timeout -1 that were not cleared                           *)
(*   outbox     the mails given to send_mail                               *)
(*   wait       the call the main thread waits in, if any: a To> or        *)
(*              Subject> prompt of ComposeCommand.apply with the mail      *)
(*              object composed, or send_mail with the handle of the       *)
(*              'sending..' notification.  While it waits no command is    *)
(*              applied and the main loop runs no callback; the worker     *)
(*              thread of an editor can end                                *)
(*   applied    how many commands that send, make or change a mail the     *)
(*              user applied                                               *)
(*   exc        the exception that left the last handler ("" for none)     *)
(***************************************************************************)
\* the values of the From header: an address, an encoded name with an
\* address, a name with an address that has no account, nothing
FromHeaders ==
  { <<"me@example.org">>,
    <<"=?utf-8?q?", "M=C3=A9", "?=", " ", "<", "me@example.org", ">">>,
    <<"Me", " ", "<", "nobody@example.org", ">">>,
    <<>> }
\* the reasons send_mail gives for a failure
Reasons == {<<"connection refused">>, <<>>}
\* account.realname of the accounts
realname == <<"Me">>

\* message.decode_header(header): the text of the encoded words
decode_header(h) ==
  LET words == SelectSeq(h, LAMBDA a : a \notin {"=?utf-8?q?", "?="})
  IN  [i \in 1..Len(words) |-> IF words[i] = "M=C3=A9" THEN "M\\xe9" ELSE words[i]]

\* message.encode_header(key, value) on the text of an address header: what
\* is not ASCII becomes an encoded word
RECURSIVE encode_header_text(_)
encode_header_text(value) ==
  IF value = <<>> THEN <<>>
  ELSE (IF Head(value) = "M\\xe9" THEN <<"=?utf-8?q?", "M=C3=A9", "?=">>
                                  ELSE <<Head(value)>>)
       \o encode_header_text(Tail(value))

\* the From lines an editor can leave in the file
FromValues == {decode_header(h) : h \in FromHeaders}

\* email.Utils.parseaddr(frm): the pair of real name and address
parseaddr(frm) ==
  IF \E i \in 1..Len(frm) : frm[i] = "<"
  THEN LET i == CHOOSE k \in 1..Len(frm) : frm[k] = "<"
           j == CHOOSE k \in 1..Len(frm) : frm[k] = ">"
       IN  <<Strip(SubSeq(frm, 1, i - 1)), SubSeq(frm, i + 1, j - 1)>>
  ELSE <<<<>>, frm>>

\* ui.accountman.get_account_by_address(saddr): an account or None
get_account_by_address(u, saddr) == saddr \in u.accounts

\* ui.notify(message, timeout=-1, block=False): shown until cleared;
\* the position of the note is the handle returned
notify_sticky(u, text) ==
  [notify(u, text, <<>>, "default") EXCEPT !.sticky = @ \cup {Len(u.notes) + 1}]
\* ui.clear_notify(handles)
clear_notify(u, handles) == [u EXCEPT !.sticky = @ \ handles]
\* account.sender.send_mail(mail): the mail is handed to the transport
send_mail(u, mail) == [u EXCEPT !.outbox = Append(@, mail)]

\* the open envelope buffers
EnvelopeIds(u) ==
  {u.buffers[i].id : i \in {k \in 1..Len(u.buffers) : u.buffers[k].type = "envelope"}}
\* envelope.get_email() of the envelope buffer id: its mail object
get_email(u, id) == u.mails[u.email[id]]
\* mail.get(key): the header, None (written <<>>) when the mail has none
header(mail, key) == IF key \in DOMAIN mail THEN mail[key] ELSE <<>>
\* del mail[key]
del(mail, key) == [k \in (DOMAIN mail) \ {key} |-> mail[k]]
\* MIMEMultipart(): a new mail object, with none of the headers followed
FreshMail(u) ==
  CHOOSE m \in 1..(Cardinality(DOMAIN u.mails) + 1) : m \notin DOMAIN u.mails
MIMEMultipart(u) == [u EXCEPT !.mails = (FreshMail(u) :> EmptyMap) @@ @]
\* the main thread waits in the call kind, made for the mail object mail
Wait(kind, mail, ask_subject, clearme) ==
  <<[kind |-> kind, mail |-> mail, ask_subject |-> ask_subject, clearme |-> clearme]>>
\* what no open envelope, no waiting callback, no waiting call and no
\* message of an open thread buffer refers to is forgotten
collect(u) ==
  LET email == [b \in (DOMAIN u.email) \cap EnvelopeIds(u) |-> u.email[b]]
      kept  == {email[b] : b \in DOMAIN email}
                 \cup {u.edits[i].mail : i \in 1..Len(u.edits)}
                 \cup {u.wait[i].mail : i \in 1..Len(u.wait)}
                 \cup (IF get_buffers_of_type(u, "thread") # <<>>
                       THEN {u.message} ELSE {})
  IN  [u EXCEPT !.email = email, !.mails = [m \in kept |-> u.mails[m]]]

\* EnvelopeSendCommand.apply(ui) up to the call of send_mail, in which the
\* main thread waits; without an account it runs to its end
EnvelopeSendCommand_apply(u) ==
  LET envelope == u.current_buffer
      mail == get_email(u, envelope)
      saddr == parseaddr(decode_header(header(mail, "From")))[2]
  IN  IF get_account_by_address(u, saddr)
      THEN LET sending == notify_sticky(u, "sending..")
           IN  [send_mail(sending, mail) EXCEPT
                  !.wait = Wait("send_mail", u.email[envelope], FALSE, Len(sending.notes))]
      ELSE notify(u, "failed to send: no account set up for %s", <<saddr>>, "error")

\* the rest of EnvelopeSendCommand.apply that closes the envelope whatever
\* send_mail said
EnvelopeSendCommand_returnClosing(u, success, reason, next) ==
  LET envelope == u.current_buffer
      tried == clear_notify([u EXCEPT !.wait = <<>>], {u.wait[1].clearme})
      closed == BufferCloseCommand_apply(tried, envelope, FALSE, 0, next)
  IN  IF success
      THEN notify(closed, "mail send successful", <<>>, "default")
      ELSE notify(closed, "failed to send: %s", <<reason>>, "error")

\* EnvelopeSendCommand.apply(ui) from the return of send_mail; success and
\* reason are what it returns, next is the buffer focused when the envelope
\* is closed
EnvelopeSendCommand_return(u, success, reason, next) ==
  LET envelope == u.current_buffer
      tried == clear_notify([u EXCEPT !.wait = <<>>], {u.wait[1].clearme})
  IN  IF success
      THEN notify(BufferCloseCommand_apply(tried, envelope, FALSE, 0, next),
                  "mail send successful", <<>>, "default")
      ELSE notify(tried, "failed to send: %s", <<reason>>, "error")

\* EnvelopeSetCommand.apply(ui) with replace true: the header is replaced
\* in the mail object of the focused envelope
EnvelopeSetCommand_apply(u, key, value) ==
  [u EXCEPT !.mails[u.email[u.current_buffer]] = (key :> value) @@ @]

\* EnvelopeOpenCommand.apply(ui) with the mail object it was made with
EnvelopeOpenCommand_applyMail(u, mail) ==
  LET opened == EnvelopeOpenCommand_apply(u)
  IN  [opened EXCEPT !.email = (opened.current_buffer :> mail) @@ @]

\* EnvelopeEditCommand.apply(ui) for the mail object mail: the headers go
\* to a file and an EditCommand is applied that runs the callback on success
EnvelopeEditCommand_apply(u, mail, openNew) ==
  [u EXCEPT !.edits = Append(@, [mail |-> mail, openNew |-> openNew])]

\* openEnvelopeFromTmpfile(), the callback of EnvelopeEditCommand e, for a
\* file whose From line is value and whose Subject and To lines are there:
\* each header of the file is set in the mail object itself, which is then
\* opened in a new envelope or set as the mail of the focused buffer; a
\* buffer that is no envelope has no set_email
openEnvelopeFromTmpfile(u, e, value) ==
  LET read == [u EXCEPT !.mails[e.mail] =
                          ("From" :> encode_header_text(value)) @@ @
                            @@ ("Subject" :> <<>>) @@ ("To" :> <<>>)]
  IN  IF e.openNew
      THEN EnvelopeOpenCommand_applyMail(read, e.mail)
      ELSE IF read.current_buffer \in EnvelopeIds(read)
      THEN [read EXCEPT !.email = (read.current_buffer :> e.mail) @@ @]
      ELSE [read EXCEPT !.exc = "AttributeError"]

\* ComposeCommand.apply(ui) from line 374: with the setting
\* general.ask_subject and no Subject the main thread waits in the Subject>
\* prompt; otherwise the EnvelopeEditCommand is applied
ComposeCommand_subject(u, mail, ask_subject) ==
  IF ask_subject /\ "Subject" \notin DOMAIN u.mails[mail]
  THEN [u EXCEPT !.wait = Wait("Subject>", mail, ask_subject, 0)]
  ELSE EnvelopeEditCommand_apply(u, mail, TRUE)

\* ComposeCommand.apply(ui) from line 371: without To the main thread waits
\* in the To> prompt
ComposeCommand_to(u, mail, ask_subject) ==
  IF "To" \notin DOMAIN u.mails[mail]
  THEN [u EXCEPT !.wait = Wait("To>", mail, ask_subject, 0)]
  ELSE ComposeCommand_subject(u, mail, ask_subject)

\* ComposeCommand.apply(ui) of the command made with the mail object mail,
\* which it keeps: the headers missing are set in that object.  It runs up
\* to the first prompt it waits in or to its end.  There is at most one
\* account, the From> prompt is not reached; ask_subject is the setting
\* general.ask_subject
ComposeCommand_apply(u, mail, ask_subject) ==
  IF "From" \notin DOMAIN u.mails[mail] /\ u.accounts = {}
  THEN notify(u, "no accounts set", <<>>, "default")
  ELSE LET a == CHOOSE address \in u.accounts : TRUE
           from == IF "From" \in DOMAIN u.mails[mail] THEN u
                   ELSE [u EXCEPT !.mails[mail] =
                           ("From" :> realname \o <<" ", "<">> \o a \o <<">">>) @@ @]
       IN  ComposeCommand_to(from, mail, ask_subject)

\* ui.prompt returns to ComposeCommand.apply: the header asked for is set
\* (what was typed is not followed) and apply goes on
ComposeCommand_prompted(u) ==
  LET w == u.wait[1]
      key == IF w.kind = "To>" THEN "To" ELSE "Subject"
      set == [u EXCEPT !.wait = <<>>, !.mails[w.mail] = (key :> <<>>) @@ @]
  IN  IF w.kind = "To>"
      THEN ComposeCommand_subject(set, w.mail, w.ask_subject)
      ELSE EnvelopeEditCommand_apply(set, w.mail, TRUE)

\* the From header ReplyCommand.apply and ForwardCommand.apply give the new
\* mail when matched_address is an address of an account
MatchedFrom(matched_address) ==
  IF matched_address # <<>>
  THEN ("From" :> encode_header_text(realname \o <<" ", "<">> \o matched_address
                                       \o <<">">>))
  ELSE EmptyMap

\* ReplyCommand.apply(ui) on the selected message of a thread buffer, whose
\* mail object is read: mail['Subject'] and mail['To'] are None when the
\* header is missing.  matched_address is the account address found in To,
\* Cc or Bcc, '' (written <<>>) when there is none.  The new mail gets
\* Subject, To and, with a matched address, From
ReplyCommand_apply(u, groupreply, matched_address, ask_subject) ==
  LET mail == u.mails[u.message]
  IN  IF "Subject" \notin DOMAIN mail THEN [u EXCEPT !.exc = "AttributeError"]
      ELSE IF "To" \notin DOMAIN mail /\ u.accounts # {}
      THEN [u EXCEPT !.exc = "TypeError"]
      ELSE IF "To" \notin DOMAIN mail /\ groupreply
      THEN [u EXCEPT !.exc = "AttributeError"]
      ELSE LET reply == MIMEMultipart(u)
               headers == MatchedFrom(matched_address)
                            @@ ("Subject" :> <<>>) @@ ("To" :> <<>>)
           IN  ComposeCommand_apply([reply EXCEPT !.mails[FreshMail(u)] = headers],
                                    FreshMail(u), ask_subject)

\* ForwardCommand.apply(ui) on the selected message of a thread buffer: the
\* new mail gets Subject and, with a matched address, From
ForwardCommand_apply(u, matched_address, ask_subject) ==
  LET mail == u.mails[u.message]
  IN  IF "Subject" \notin DOMAIN mail THEN [u EXCEPT !.exc = "TypeError"]
      ELSE IF "To" \notin DOMAIN mail /\ u.accounts # {}
      THEN [u EXCEPT !.exc = "TypeError"]
      ELSE LET reply == MIMEMultipart(u)
               headers == MatchedFrom(matched_address) @@ ("Subject" :> <<>>)
           IN  ComposeCommand_apply([reply EXCEPT !.mails[FreshMail(u)] = headers],
                                    FreshMail(u), ask_subject)

\* BounceMailCommand.apply(ui) on the selected message of a thread buffer:
\* To is deleted in the mail object of the message, which is the mail the
\* ComposeCommand is made with
BounceMailCommand_apply(u, ask_subject) ==
  ComposeCommand_apply([u EXCEPT !.mails[u.message] = del(@, "To")],
                       u.message, ask_subject)

\* what is kept of the apply of an EnvelopeSendCommand: what send_mail
\* returned and the UI before it
Sent(op, success, reason) == [op |-> op, success |-> success, reason |-> reason, pre |-> ui]
\* after another handler nothing is kept but the UI u it left
NotSent(u) == [op |-> "other", success |-> FALSE, reason |-> <<>>, pre |-> u]
\* while send_mail runs, the UI before the apply is kept
Sending == [op |-> "sending", success |-> FALSE, reason |-> <<>>, pre |-> ui]

\* the headers of the selected message when it was received
MessageHeaders ==
  { ("From" :> <<"me@example.org">>) @@ ("To" :> <<>>) @@ ("Subject" :> <<>>),
    ("From" :> <<"me@example.org">>) @@ ("To" :> <<>>),
    ("From" :> <<"me@example.org">>) @@ ("Subject" :> <<>>) }

\* a thread buffer whose selected message has mail object 1 and an envelope,
\* focused, for a composed mail
EnvelopeInit ==
  /\ DispatchInit
  /\ ui \in [phase : {"envelope"},
             buffers : {<<Buffer(1, "thread", <<>>), Buffer(2, "envelope", <<>>)>>},
             current_buffer : {2},
             message : {1},
             email : {(2 :> 2)},
             mails : {(1 :> m) @@ (2 :> (("From" :> h) @@ ("To" :> <<>>)
                                           @@ ("Subject" :> <<>>))) :
                        m \in MessageHeaders, h \in FromHeaders},
             edits : {<<>>}, applied : {0},
             accounts : {{}, {<<"me@example.org">>}},
             notes : {<<>>}, sticky : {{}}, outbox : {<<>>}, wait : {<<>>},
             exc : {""}]
  /\ last = NotSent(ui)
  /\ ext = NoExt

\* the address of the From header of the focused envelope's mail has an
\* account
SenderHasAccount(u) ==
  get_account_by_address(
    u, parseaddr(decode_header(header(get_email(u, u.current_buffer), "From")))[2])

\* the envelope is focused and EnvelopeSendCommand is applied: it ends at
\* once when no account is found and waits in send_mail otherwise
ApplySend ==
  /\ ui.applied < MaxApplied
  /\ ui.wait = <<>>
  /\ FocusedType(ui, "envelope")
  /\ ui' = EnvelopeSendCommand_apply([ui EXCEPT !.applied = @ + 1, !.exc = ""])
  /\ last' = IF SenderHasAccount(ui) THEN Sending ELSE Sent("send", FALSE, <<>>)
  /\ UNCHANGED <<dispatchVars, ext>>

\* send_mail returns and EnvelopeSendCommand.apply runs to its end; a send
\* that closes the last open buffer is not followed
SendReturns ==
  /\ Len(ui.wait) = 1 /\ ui.wait[1].kind = "send_mail"
  /\ \E success \in BOOLEAN, reason \in Reasons :
       \E next \in IF success THEN NextAfter(ui, ui.current_buffer) ELSE {0} :
         /\ ui' = collect(EnvelopeSendCommand_return(
                            ui, success, IF success THEN <<>> ELSE reason, next))
         /\ last' = [op |-> "send", success |-> success,
                     reason |-> IF success THEN <<>> ELSE reason, pre |-> last.pre]
  /\ UNCHANGED <<dispatchVars, ext>>

\* the user answers the prompt ComposeCommand.apply waits in
PromptReturns ==
  /\ Len(ui.wait) = 1 /\ ui.wait[1].kind \in {"To>", "Subject>"}
  /\ ui' = collect(ComposeCommand_prompted(ui))
  /\ last' = NotSent(ui')
  /\ UNCHANGED <<dispatchVars, ext>>

\* the From header of the mail is set in the envelope
ApplySetFrom ==
  /\ ui.applied < MaxApplied
  /\ ui.wait = <<>>
  /\ FocusedType(ui, "envelope")
  /\ \E h \in FromHeaders \ {header(get_email(ui, ui.current_buffer), "From")} :
       ui' = EnvelopeSetCommand_apply([ui EXCEPT !.applied = @ + 1, !.exc = ""],
                                      "From", h)
  /\ last' = NotSent(ui')
  /\ UNCHANGED <<dispatchVars, ext>>

\* subject and to, commands of mode envelope: the header is set
ApplySetHeader ==
  /\ ui.applied < MaxApplied
  /\ ui.wait = <<>>
  /\ FocusedType(ui, "envelope")
  /\ \E key \in {"Subject", "To"} :
       ui' = EnvelopeSetCommand_apply([ui EXCEPT !.applied = @ + 1, !.exc = ""],
                                      key, <<>>)
  /\ last' = NotSent(ui')
  /\ UNCHANGED <<dispatchVars, ext>>

\* reedit: EnvelopeEditCommand is applied in the focused envelope
ApplyEnvelopeEdit ==
  /\ ui.applied < MaxApplied
  /\ ui.wait = <<>>
  /\ FocusedType(ui, "envelope")
  /\ ui' = EnvelopeEditCommand_apply([ui EXCEPT !.applied = @ + 1, !.exc = ""],
                                     ui.email[ui.current_buffer], FALSE)
  /\ last' = NotSent(ui')
  /\ UNCHANGED <<dispatchVars, ext>>

\* the editor of a waiting edit exits with 0 and the main loop runs the
\* callback
EditCallback ==
  /\ ui.wait = <<>>
  /\ \E i \in 1..Len(ui.edits), value \in FromValues :
       LET rest == [ui EXCEPT !.exc = "",
                              !.edits = SubSeq(@, 1, i - 1) \o SubSeq(@, i + 1, Len(@))]
           u == openEnvelopeFromTmpfile(rest, ui.edits[i], value)
       IN  /\ Len(u.buffers) <= MaxOpen
           /\ ui' = collect(u)
  /\ last' = NotSent(ui')
  /\ UNCHANGED <<dispatchVars, ext>>

\* the editor of a waiting edit exits with another code, its worker thread
\* ends and no callback runs; this can happen while the main thread waits
EditFails ==
  /\ \E i \in 1..Len(ui.edits) :
       ui' = collect([ui EXCEPT !.exc = "",
                                !.edits = SubSeq(@, 1, i - 1) \o SubSeq(@, i + 1, Len(@))])
  /\ last' = IF last.op = "sending" THEN last ELSE NotSent(ui')
  /\ UNCHANGED <<dispatchVars, ext>>

\* compose: a ComposeCommand made without a mail, which makes a new one
ApplyCompose ==
  /\ ui.applied < MaxApplied
  /\ ui.wait = <<>>
  /\ \E ask_subject \in BOOLEAN :
       ui' = collect(ComposeCommand_apply(
                       MIMEMultipart([ui EXCEPT !.applied = @ + 1, !.exc = ""]),
                       FreshMail(ui), ask_subject))
  /\ last' = NotSent(ui')
  /\ UNCHANGED <<dispatchVars, ext>>

\* reply or groupreply in a thread buffer
ApplyReply ==
  /\ ui.applied < MaxApplied
  /\ ui.wait = <<>>
  /\ FocusedType(ui, "thread")
  /\ \E groupreply \in BOOLEAN, matched_address \in ui.accounts \cup {<<>>},
        ask_subject \in BOOLEAN :
       ui' = collect(ReplyCommand_apply([ui EXCEPT !.applied = @ + 1, !.exc = ""],
                                        groupreply, matched_address, ask_subject))
  /\ last' = NotSent(ui')
  /\ UNCHANGED <<dispatchVars, ext>>

\* forward in a thread buffer
ApplyForward ==
  /\ ui.applied < MaxApplied
  /\ ui.wait = <<>>
  /\ FocusedType(ui, "thread")
  /\ \E matched_address \in ui.accounts \cup {<<>>}, ask_subject \in BOOLEAN :
       ui' = collect(ForwardCommand_apply([ui EXCEPT !.applied = @ + 1, !.exc = ""],
                                          matched_address, ask_subject))
  /\ last' = NotSent(ui')
  /\ UNCHANGED <<dispatchVars, ext>>

\* bounce in a thread buffer
ApplyBounce ==
  /\ ui.applied < MaxApplied
  /\ ui.wait = <<>>
  /\ FocusedType(ui, "thread")
  /\ \E ask_subject \in BOOLEAN :
       ui' = collect(BounceMailCommand_apply([ui EXCEPT !.applied = @ + 1, !.exc = ""],
                                             ask_subject))
  /\ last' = NotSent(ui')
  /\ UNCHANGED <<dispatchVars, ext>>

\* close: the focused buffer is closed; the last open buffer is not closed
\* in the runs followed
ApplyCloseEnvelope ==
  /\ ui.wait = <<>>
  /\ Len(ui.buffers) > 1
  /\ \E next \in NextAfter(ui, ui.current_buffer) :
       ui' = collect(BufferCloseCommand_apply([ui EXCEPT !.exc = ""], 0, FALSE, 0, next))
  /\ last' = NotSent(ui')
  /\ UNCHANGED <<dispatchVars, ext>>

\* the user moves the focus with bnext or bprevious
ApplyFocusEnvelope ==
  /\ ui.wait = <<>>
  /\ \E offset \in {1, -1} :
       ui' = BufferFocusCommand_apply([ui EXCEPT !.exc = ""], 0, offset, 0)
  /\ last' = NotSent(ui')
  /\ UNCHANGED <<dispatchVars, ext>>

EnvelopeNext ==
  \/ ApplySend
  \/ SendReturns
  \/ PromptReturns
  \/ ApplySetFrom
  \/ ApplySetHeader
  \/ ApplyEnvelopeEdit
  \/ EditCallback
  \/ EditFails
  \/ ApplyCompose
  \/ ApplyReply
  \/ ApplyForward
  \/ ApplyBounce
  \/ ApplyCloseEnvelope
  \/ ApplyFocusEnvelope

SpecEnvelope == EnvelopeInit /\ [][EnvelopeNext]_vars

(***************************************************************************)
(* Properties.                                                             *)
(***************************************************************************)
\* a direct call of commandfactory has returned
FactoryReturned == pc = "returned" /\ call.op = "commandfactory"
\* a call of interpret_commandline has returned
InterpretReturned == pc = "returned" /\ call.op = "interpret_commandline"
\* the hooks the hook table holds for a name
HooksOf(n) == ( "prehook" :> Get(hooks, HookKey("pre_", n))
             @@ "posthook" :> Get(hooks, HookKey("post_", n)) )
\* a call-site value as it is bound: a deferred value by its result
Resolved(v) == IF Callable(v) THEN Invoke(v) ELSE v

\* C1: for a name registered in 'global' and not in the mode, commandfactory
\* in that mode has the outcome of commandfactory in mode 'global' with the
\* same parameters: the class registered in 'global', the same bound
\* parameters and the same hooks; a name registered in the mode is built
\* from the entry of the mode.
C1_GlobalFallback ==
  FactoryReturned =>
    /\ (call.name \in DOMAIN registry["global"] \ DOMAIN registry[call.mode]) =>
         /\ ret = commandfactory(registry, hooks, call.name, "global", call.kwargs)
         /\ ret.kind # "cmd" =>
              ret.exc \in {"TypeError", "AssertionError"}
         /\ ret.kind = "cmd" =>
              /\ ret.cls = registry["global"][call.name].cls
              /\ \A k \in DOMAIN registry["global"][call.name].parms \ DOMAIN call.kwargs :
                   ret.parms[k] = registry["global"][call.name].parms[k]
              /\ \A k \in DOMAIN call.kwargs \ {"prehook", "posthook"} :
                   ret.parms[k] = Resolved(call.kwargs[k])
              /\ \A h \in {"prehook", "posthook"} : ret.attrs[h] = HooksOf(call.name)[h]
    /\ (call.name \in DOMAIN registry[call.mode] /\ ret.kind = "cmd") =>
         ret.cls = registry[call.mode][call.name].cls

C1_Witness ==
  /\ FactoryReturned
  /\ call.name = "search" /\ call.mode = "thread"
  /\ call.kwargs = ("query" :> PyStr(<<"urgent">>))
  /\ ret.kind = "cmd" /\ ret.cls = "SearchCommand"
  /\ ret.attrs["query"] = PyStr(<<"urgent">>)
  /\ ret.attrs["prehook"] = <<"hook", "pre_search">>

\* C2: commandfactory called with a name registered neither in the mode nor
\* in 'global' logs the unknown-command error, constructs no command and
\* lets no exception leave the call.
C2_UnknownNameLoggedNotRaised ==
  (FactoryReturned
     /\ call.name \notin DOMAIN registry[call.mode] \cup DOMAIN registry["global"]) =>
    /\ logged = <<"error: there is no command">>
    /\ ret.kind # "cmd"
    /\ ret.kind # "raise"

\* the call-site-free call of a registered (mode, name) pair has returned
RegisteredPairCalled ==
  /\ FactoryReturned
  /\ call.kwargs = EmptyMap
  /\ call.name \in DOMAIN registry[call.mode]

\* the command is an instance of the class registered for the pair, with
\* every registered default bound to its registered value
BuiltWithDefaults ==
  /\ ret.kind = "cmd"
  /\ ret.cls = registry[call.mode][call.name].cls
  /\ \A k \in DOMAIN registry[call.mode][call.name].parms :
       /\ k \in DOMAIN ret.parms
       /\ ret.parms[k] = registry[call.mode][call.name].parms[k]
       /\ k \in DOMAIN ret.attrs
       /\ ret.attrs[k] = registry[call.mode][call.name].parms[k]

\* C3 as stated: for every registered (mode, name) pair, commandfactory with
\* no call-site parameters returns an instance of the registered class with
\* the registered defaults bound and every required parameter bound.
C3_EveryPairConstructs == RegisteredPairCalled => BuiltWithDefaults

\* the global names whose constructor requires a parameter (query,
\* commandstring, path) for which the registry holds no default
NeedsCallSiteParameter == {"search", "shellescape", "edit"}

\* C3 as amended: the same for every registered pair except the global
\* search, shellescape and edit, for which the call raises TypeError and
\* constructs nothing.
C3_PairConstructsUnlessParameterMissing ==
  RegisteredPairCalled =>
    IF call.name \in NeedsCallSiteParameter
    THEN ret = Raise("TypeError")
    ELSE BuiltWithDefaults

C3_Witness ==
  /\ RegisteredPairCalled
  /\ call.name = "toggletag" /\ call.mode = "search"
  /\ ret.cls = "ToggleThreadTagCommand"
  /\ ret.attrs["tag"] = PyStr(<<"inbox">>)

\* C4: in a command constructed by commandfactory, a registered default
\* whose key is given at the call site is bound to the call-site value, and
\* a default whose key is not given stays bound to its registered value.
C4_CallSiteOverridesDefault ==
  (pc = "returned" /\ Len(calls) = 1 /\ ret.kind = "cmd") =>
    LET c == calls[1]
        src == IF c.name \in DOMAIN registry[c.mode] THEN c.mode ELSE "global"
        d == registry[src][c.name].parms
    IN  \A k \in DOMAIN d :
          /\ k \in DOMAIN c.kwargs =>
               ret.parms[k] = Resolved(c.kwargs[k]) /\ ret.attrs[k] = Resolved(c.kwargs[k])
          /\ k \notin DOMAIN c.kwargs =>
               ret.parms[k] = d[k] /\ ret.attrs[k] = d[k]

C4_Witness ==
  /\ FactoryReturned
  /\ call.name = "toggletag" /\ call.mode = "search"
  /\ call.kwargs = ("tag" :> PyStr(<<"urgent">>))
  /\ ret.kind = "cmd"
  /\ ret.attrs["tag"] = PyStr(<<"urgent">>)
  /\ ret.attrs["tag"] # registry["search"]["toggletag"].parms["tag"]

\* C5: interpret_commandline returns a command or nothing for every command
\* line and every mode: no exception leaves the call.
C5_InterpretNeverRaises == InterpretReturned => ret.kind \in {"cmd", "none"}

\* C6: a command line whose name, after alias substitution and the '!'
\* rewrite, is registered neither in the mode nor in 'global' yields
\* nothing, makes no commandfactory call and raises nothing.
C6_InvisibleNameYieldsNothing ==
  InterpretReturned =>
    LET cmd == Rewritten(aliases, call.line).cmd
    IN  ~(Len(cmd) = 1 /\ cmd[1] \in DOMAIN registry[call.mode] \cup DOMAIN registry["global"])
          => (ret = Nothing /\ calls = <<>>)

\* toggletag is registered in mode search only: it is rejected in mode thread
C6_Witness ==
  /\ InterpretReturned
  /\ call.line = <<"toggletag", " ", "x">> /\ call.mode = "thread"
  /\ ret = Nothing /\ calls = <<>>
  /\ logged = <<"debug: got commandline", "debug: unknown command">>

\* the command line is a name, one space and a remainder
NameSpaceRemainder == Len(call.line) >= 2 /\ call.line[2] = " "
LineName == call.line[1]
Remainder == SubSeq(call.line, 3, Len(call.line))
\* the name is registered in the mode of the call or in 'global'
LineNameVisible == LineName \in DOMAIN registry[call.mode] \cup DOMAIN registry["global"]
\* the entry of the registry the name resolves to
LineEntry ==
  IF LineName \in DOMAIN registry[call.mode] THEN registry[call.mode][LineName]
  ELSE registry["global"][LineName]

\* the fixed named parameter a remainder r is bound to, by command name
Positional(n, r) ==
  CASE n \in {"search", "refine"} -> "query" :> PyStr(r)
    [] n = "retag" -> "tagsstring" :> PyStr(r)
    [] n = "prompt" -> "startstring" :> PyStr(r)
    [] n = "toggletag" -> "tag" :> PyStr(r)
    [] n = "subject" -> "key" :> PyStr(<<"Subject">>) @@ "value" :> PyStr(r)
    [] n = "to" -> "key" :> PyStr(<<"To">>) @@ "value" :> PyStr(r)
    [] n \in {"fold", "unfold"} -> "all" :> PyBool(r = <<"all">>)
PositionalNames ==
  {"search", "refine", "retag", "prompt", "toggletag", "subject", "to", "fold", "unfold"}

\* the call returned a command of the line's name whose parameters are the
\* mapping b, with the registered defaults for the other parameters
BoundTo(b) ==
  /\ ret.kind = "cmd"
  /\ ret.cls = LineEntry.cls
  /\ \A k \in DOMAIN b : ret.parms[k] = b[k]
  /\ \A k \in DOMAIN LineEntry.parms \ DOMAIN b : ret.parms[k] = LineEntry.parms[k]

\* C7: for a visible name, one space and a remainder (read without the
\* trailing whitespace that stripping the line removes), the remainder as a
\* whole is bound to the fixed named parameter of the command, and the
\* registered defaults apply to the other parameters.
C7_RemainderBoundToNamedParameter ==
  (InterpretReturned /\ NameSpaceRemainder /\ LineName \in PositionalNames
     /\ LineNameVisible /\ Remainder = RStrip(Remainder)) =>
    BoundTo(Positional(LineName, Remainder))

\* the commands that accept no parameters
ParameterFree ==
  {"exit", "flush", "pyshell", "taglist", "close", "openfocussed", "closefocussed",
   "bnext", "bprevious", "refresh", "bufferlist", "refineprompt", "reply", "forward",
   "groupreply", "bounce", "openthread", "send", "reedit", "select", "retagprompt"}

\* C8: a visible command that accepts no parameters is yielded, with its
\* registered class and defaults, when the remainder of the line is empty,
\* and nothing is yielded when the remainder is not empty.
C8_ParameterFreeCommands ==
  InterpretReturned =>
    LET a == Rewritten(aliases, call.line)
        n == a.cmd[1]
        src == IF n \in DOMAIN registry[call.mode] THEN call.mode ELSE "global"
    IN  (Len(a.cmd) = 1 /\ n \in ParameterFree
           /\ n \in DOMAIN registry[call.mode] \cup DOMAIN registry["global"]) =>
          IF a.params = <<>>
          THEN /\ ret.kind = "cmd"
               /\ ret.cls = registry[src][n].cls
               /\ \A k \in DOMAIN registry[src][n].parms :
                    ret.attrs[k] = registry[src][n].parms[k]
          ELSE ret = Nothing /\ calls = <<>>

C8_Witness ==
  /\ InterpretReturned
  /\ call.line = <<"exit", " ", "x">> /\ call.mode = "global"
  /\ ret = Nothing

\* C9: a command line made of '!' and a non-empty text c (read without the
\* surrounding whitespace that stripping the line removes) yields the
\* shellescape command whose commandstring is exactly c.
C9_ShellescapeExact ==
  (InterpretReturned /\ Len(call.line) >= 2 /\ call.line[1] = "!"
     /\ Tail(call.line) = RStrip(Tail(call.line))) =>
    /\ ret.kind = "cmd"
    /\ ret.cls = "ExternalCommand"
    /\ ret.attrs["commandstring"] = PyStr(Tail(call.line))

\* the line is a name, a separator of one or more whitespace atoms and a
\* remainder that neither starts nor ends with whitespace
SeparatorLen ==
  IF \E i \in 2..Len(call.line) : call.line[i] \notin Whitespace
  THEN (CHOOSE i \in 2..Len(call.line) :
          call.line[i] \notin Whitespace /\ \A j \in 2..(i - 1) : call.line[j] \in Whitespace) - 2
  ELSE 0
Separator == SubSeq(call.line, 2, 1 + SeparatorLen)
AfterSeparator == SubSeq(call.line, 2 + SeparatorLen, Len(call.line))
NameSeparatorRemainder ==
  /\ InterpretReturned
  /\ Len(call.line) >= 3
  /\ LineName \in PositionalNames /\ LineNameVisible
  /\ SeparatorLen >= 1
  /\ AfterSeparator # <<>> /\ AfterSeparator = RStrip(AfterSeparator)

\* C10 as stated: the line is split at the whole whitespace run, so the
\* parameter bound is the remainder without the whitespace of the separator.
C10_SplitAtWhitespaceRun ==
  NameSeparatorRemainder => BoundTo(Positional(LineName, AfterSeparator))

\* C10 as amended: the line is split at its first space only.  When the
\* separator starts with a space, the parameter bound is everything after
\* that space, the rest of the separator included; when it starts with a
\* tab, the name is not split off and nothing is yielded.
C10_SplitAtFirstSpace ==
  NameSeparatorRemainder =>
    IF Separator[1] = " "
    THEN BoundTo(Positional(LineName, Tail(Separator) \o AfterSeparator))
    ELSE ret = Nothing /\ calls = <<>>

C10_Witness ==
  /\ InterpretReturned
  /\ call.line = <<"search", " ", " ", "x">> /\ call.mode = "global"
  /\ ret.kind = "cmd"
  /\ ret.attrs["query"] = PyStr(<<" ", "x">>)

\* C11: alias substitution is applied once.  A line whose name is an alias
\* is interpreted as the expansion followed by the unchanged remainder, with
\* no further alias substitution: the command dispatched is the one named
\* by the expansion, and nothing is yielded when the expansion is not
\* visible, even if the expansion is itself an alias.
C11_AliasUnfoldedOnce ==
  InterpretReturned =>
    LET a == Parse(call.line)
    IN  a.cmd \in DOMAIN aliases =>
          /\ ret = interpret_commandline(registry, hooks, EmptyMap, files,
                                         aliases[a.cmd] \o <<" ">> \o a.params, call.mode)
          /\ ret.kind = "cmd" =>
               /\ calls[1].name = aliases[a.cmd][1]
               /\ ret.cls = registry["global"][aliases[a.cmd][1]].cls
          /\ (aliases[a.cmd][1] \notin DOMAIN registry[call.mode] \cup DOMAIN registry["global"])
               => (ret = Nothing /\ calls = <<>>)

\* a -> b and b -> close are configured: 'a' is read as 'b', not as 'close'
C11_Witness ==
  /\ InterpretReturned
  /\ call.line = <<"a">> /\ call.mode = "global"
  /\ aliases[<<"a">>] = <<"b">> /\ aliases[<<"b">>] = <<"close">>
  /\ ret = Nothing /\ calls = <<>>

\* C12: the empty line and a line of whitespace only yield nothing, in
\* every mode: no command is constructed and nothing is raised.
C12_BlankLineYieldsNothing ==
  (InterpretReturned /\ \A i \in 1..Len(call.line) : call.line[i] \in Whitespace) =>
    (ret = Nothing /\ calls = <<>>)

C12_Witness ==
  /\ InterpretReturned
  /\ call.line = <<" ", "\t", " ">> /\ call.mode = "thread"
  /\ ret = Nothing /\ calls = <<>>

\* the line is 'edit' followed by a remainder
EditLine == InterpretReturned /\ Len(call.line) >= 1 /\ call.line[1] = "edit"
                /\ (Len(call.line) >= 2 => call.line[2] = " ")
\* the remainder, without the whitespace that stripping the line removes
EditRemainder == RStrip(SubSeq(call.line, 3, Len(call.line)))
\* the remainder with a leading '~/' replaced by the home directory
EditPath ==
  IF EditRemainder # <<>> /\ EditRemainder[1] = "~/"
  THEN <<"/home/user/">> \o Tail(EditRemainder)
  ELSE EditRemainder

\* C13: 'edit' followed by a remainder yields an edit command bound to the
\* user-expanded remainder when that path is an existing file; otherwise,
\* also for an empty remainder, it yields nothing, constructs no command
\* and raises nothing.
C13_EditNeedsExistingFile ==
  EditLine =>
    IF EditPath \in files
    THEN /\ ret.kind = "cmd"
         /\ ret.cls = "EditCommand"
         /\ ret.attrs["path"] = PyStr(EditPath)
    ELSE ret = Nothing /\ calls = <<>>

C13_Witness ==
  /\ EditLine
  /\ call.line = <<"edit", " ", "all">>
  /\ <<"all">> \notin files
  /\ ret = Nothing /\ calls = <<>>

\* the name given to commandfactory: the name of a direct call, and for a
\* command line the name after alias substitution and the '!' rewrite
FactoryName ==
  IF call.op = "commandfactory" THEN call.name
  ELSE Rewritten(aliases, call.line).cmd[1]

\* C20: every command constructed by commandfactory has its prehook bound
\* to the entry 'pre_' + name of the hook table and its posthook to the
\* entry 'post_' + name, and to None when the table has no such entry; a
\* prehook given at the call site does not replace the binding.
C20_HooksFromTable ==
  (pc = "returned" /\ ret.kind = "cmd") =>
    /\ ret.attrs["prehook"] =
         (IF <<"pre_", FactoryName>> \in DOMAIN hooks
          THEN hooks[<<"pre_", FactoryName>>] ELSE PyNone)
    /\ ret.attrs["posthook"] =
         (IF <<"post_", FactoryName>> \in DOMAIN hooks
          THEN hooks[<<"post_", FactoryName>>] ELSE PyNone)

C20_Witness ==
  /\ FactoryReturned
  /\ call.name = "search" /\ call.mode = "global"
  /\ call.kwargs = ("prehook" :> PyStr(<<"urgent">>) @@ "query" :> PyStr(<<"urgent">>))
  /\ ret.kind = "cmd"
  /\ ret.attrs["prehook"] = <<"hook", "pre_search">>
  /\ ret.attrs["posthook"] = <<"hook", "post_search">>

(***************************************************************************)
(* Properties of the commands applied to the index.                        *)
(***************************************************************************)
\* a FlushCommand.apply attempt just ran, as object last.cmd, and it was the
\* only one of the apply that made it
FlushAttempted ==
  /\ ui.phase = "store"
  /\ last.op # "none"
  /\ last.cmd # 0
  /\ Len(ui.cmds) <= Len(last.pre.cmds) + 1
\* the alarms that were waiting before the attempt, without the one that fired
AlarmsBefore ==
  IF last.op = "alarm" THEN last.pre.alarms \ {Alarm(last.cmd, last.pre.timeout)}
                       ELSE last.pre.alarms
LockedNote == Note("index locked, will try again in %d secs", <<ui.timeout>>, "default")

\* C15: an attempt of FlushCommand.apply that finds the index locked returns
\* normally, schedules exactly one re-run of the same command after
\* flush_retry_timeout and notifies the user once; an attempt whose flush
\* goes through schedules nothing; this holds however often the command has
\* already been re-run.
C15_LockedAttemptSchedulesOneRetry ==
  FlushAttempted =>
    /\ ui.exc = ""
    /\ last.locked =>
         /\ Alarm(last.cmd, ui.timeout) \notin AlarmsBefore
         /\ ui.alarms = AlarmsBefore \cup {Alarm(last.cmd, ui.timeout)}
         /\ ui.notes = Append(last.pre.notes, LockedNote)
         /\ ui.flushes = last.pre.flushes
         /\ ui.cmds[last.cmd].state = "waiting"
    /\ ~last.locked =>
         /\ ui.alarms = AlarmsBefore
         /\ ui.notes = last.pre.notes
         /\ ui.flushes = last.pre.flushes + 1
         /\ ui.cmds[last.cmd].state = "committed"

\* a command meets the lock on its MaxLocked-th run and is scheduled once more
C15_Witness ==
  /\ FlushAttempted
  /\ last.op = "alarm"
  /\ last.locked
  /\ ui.cmds[last.cmd].tries = MaxLocked
  /\ Alarm(last.cmd, ui.timeout) \in ui.alarms

ReadOnlyNote == Note("index in read-only mode", <<>>, "error")

\* C16: on a read-only index, applying ToggleThreadTagCommand or RetagCommand
\* shows one error-priority notification and stops: no FlushCommand is made
\* or applied, no alarm is scheduled, the thread line is not rebuilt, the
\* tags stay as they were and no exception leaves apply.
C16_ReadOnlyAborts ==
  (ui.phase = "store" /\ last.op \in {"toggletag", "retag"} /\ last.pre.readonly) =>
    /\ ui.notes = Append(last.pre.notes, ReadOnlyNote)
    /\ ui.cmds = last.pre.cmds
    /\ ui.flushes = last.pre.flushes
    /\ ui.alarms = last.pre.alarms
    /\ ui.rebuilt = last.pre.rebuilt
    /\ ui.updates = last.pre.updates
    /\ ui.tags = last.pre.tags
    /\ ui.exc = ""

\* both tag commands were applied to a read-only index that is also locked
C16_Witness ==
  /\ ui.phase = "store"
  /\ last.op = "retag"
  /\ last.pre.readonly
  /\ last.pre.lockLeft > 0
  /\ ui.notes = <<ReadOnlyNote, ReadOnlyNote>>
  /\ ui.logs = <<"info">>

Committed(c) == c <= Len(ui.cmds) /\ ui.cmds[c].state = "committed"

\* C14: when the index is locked on finitely many attempts and every
\* scheduled alarm fires, each FlushCommand that was applied gets its flush
\* through; every run after the first is the alarm's, not the caller's; and
\* the locked condition never leaves apply.
C14_FlushRetriesUntilCommitted ==
  /\ \A c \in 1..MaxCmds : (c <= Len(ui.cmds)) ~> Committed(c)
  /\ [](FlushAttempted /\ ui.cmds[last.cmd].tries > 1 => last.op = "alarm")
  /\ [](ui.exc # "DatabaseLockedError")

\* a command found the index locked MaxLocked times and then committed
C14_Witness ==
  /\ FlushAttempted
  /\ last.op = "alarm"
  /\ Committed(last.cmd)
  /\ ui.cmds[last.cmd].tries = MaxLocked + 1
  /\ ui.flushes = 1
  /\ ui.alarms = {}

(***************************************************************************)
(* Properties of ExternalCommand.                                          *)
(***************************************************************************)
Applying == ext.phase = "ext" /\ ext.worker # "none"
EventsOf(op) == {i \in 1..Len(ext.events) : ext.events[i].op = op}

\* C17: with in_thread true, on_success and the refocus of the calling
\* buffer are run by the main loop only, and not before the worker thread
\* has finished and written to the pipe; the worker thread runs neither.
C17_ContinuationOnMainLoop ==
  (Applying /\ ext.in_thread) =>
    /\ \A i \in 1..Len(ext.events) : ext.events[i].thread = "main"
    /\ ext.events # <<>> => (ext.worker = "done" /\ ext.rc = 0 /\ ext.pipe = <<>>)
    /\ ext.worker # "done" => (ext.pipe = <<>> /\ ext.events = <<>>)

\* the worker thread has finished, the user went to another buffer meanwhile
\* and the main loop ran on_success and focused the calling buffer again
C17_Witness ==
  /\ Applying
  /\ ext.in_thread
  /\ ext.events = <<Event("on_success", "main"), Event("buffer_focus", "main")>>
  /\ ui.current_buffer = ext.callerbuffer
  /\ Cardinality(ui.buffers) < Cardinality(Buffers)

\* C18: blocking or in a worker thread, on_success is called at most once,
\* and only when the external command returned 0.
C18_OnSuccessOnlyAfterZero ==
  Applying =>
    /\ Cardinality(EventsOf("on_success")) <= 1
    /\ EventsOf("on_success") # {} => ext.rc = 0
    /\ (ext.worker = "done" /\ ext.rc # 0) => (ext.pipe = <<>> /\ EventsOf("on_success") = {})

\* a blocking command returned 0 and the main loop called on_success
C18_Witness ==
  /\ Applying
  /\ ~ext.in_thread
  /\ ext.rc = 0
  /\ ui.stops = 1
  /\ EventsOf("on_success") = {1}

\* C19: with refocus true, once the external command has ended and the main
\* loop has nothing left to read from the pipe, the calling buffer, if it is
\* still open, has had the focus at some moment since the command ended,
\* whatever the return code.
C19_RefocusAfterTermination ==
  (Applying /\ ext.refocus /\ ext.worker = "done" /\ ext.pipe = <<>>
            /\ ext.callerbuffer \in ui.buffers) =>
    last.refocused

(***************************************************************************)
(* Properties of the dispatch layer, continued.                            *)
(***************************************************************************)
\* the registered defaults the factory call started from
DefaultsOf(c) ==
  registry[IF c.name \in DOMAIN registry[c.mode] THEN c.mode ELSE "global"][c.name].parms
\* prehook and posthook are bound from the hook table after the merge
HookParams == {"prehook", "posthook"}
\* the factory call found the name and reached the loop over kwargs
FactoryMerged ==
  /\ pc = "returned"
  /\ Len(calls) = 1
  /\ Len(Lookup(registry, calls[1].name, calls[1].mode)) = 1

\* C21: in commandfactory every call-site value that is callable is invoked
\* exactly once and its result is bound under its key in the merged mapping,
\* every other call-site value is bound as it is and never invoked; the
\* constructed command receives these bindings (prehook and posthook are
\* rebound from the hook table afterwards) and none of its parameters is a
\* value still waiting to be invoked.
C21_CallablesInvokedOnce ==
  FactoryMerged =>
    LET c == calls[1]
        m == Merged(DefaultsOf(c), c.kwargs)
    IN  /\ \A k \in DOMAIN c.kwargs :
             /\ k \in DOMAIN m
             /\ Callable(c.kwargs[k]) =>
                  /\ k \in DOMAIN invoked
                  /\ invoked[k] = 1
                  /\ m[k] = Invoke(c.kwargs[k])
             /\ ~Callable(c.kwargs[k]) =>
                  /\ k \notin DOMAIN invoked
                  /\ m[k] = c.kwargs[k]
        /\ DOMAIN invoked \subseteq DOMAIN c.kwargs
        /\ ret.kind = "cmd" =>
             /\ \A k \in DOMAIN m \ HookParams :
                  k \in DOMAIN ret.parms /\ ret.parms[k] = m[k]
             /\ \A k \in DOMAIN ret.parms : ~Callable(ret.parms[k])
             /\ \A k \in DOMAIN ret.attrs : ~Callable(ret.attrs[k])

\* toggletag built with a deferred tag and a plain key: the tag is the result
C21_Witness ==
  /\ FactoryReturned
  /\ call.name = "toggletag" /\ call.mode = "search"
  /\ call.kwargs = ( "tag" :> Deferred(PyStr(<<"selected">>))
                  @@ "key" :> PyStr(<<"urgent">>) )
  /\ invoked = ("tag" :> 1)
  /\ ret.kind = "cmd"
  /\ ret.attrs["tag"] = PyStr(<<"selected">>)
  /\ ret.parms["key"] = PyStr(<<"urgent">>)

\* C22: whatever calls of commandfactory and interpret_commandline were made,
\* the registry is COMMANDS as built at load time, and a call is answered
\* from these defaults: nothing merged for an earlier call shows in it, the
\* command built has the registered defaults, the call-site parameters and
\* the two hooks and no other parameter, and every default not given at
\* the call site has its load-time value.
C22_RegistryUnchanged ==
  /\ registry = COMMANDS
  /\ (pc = "returned" /\ Len(calls) = 1) =>
       ret = commandfactory(COMMANDS, hooks, calls[1].name, calls[1].mode, calls[1].kwargs)
  /\ (pc = "returned" /\ Len(calls) = 1 /\ ret.kind = "cmd") =>
       LET c == calls[1]
           src == IF c.name \in DOMAIN COMMANDS[c.mode] THEN c.mode ELSE "global"
           d == COMMANDS[src][c.name].parms
           given == DOMAIN c.kwargs \cup {"prehook", "posthook"}
       IN  /\ DOMAIN ret.parms = DOMAIN d \cup given
           /\ \A k \in DOMAIN d \ given : ret.parms[k] = d[k]

\* toggletag was built with a call-site tag and a posthook from the hook
\* table; the registered defaults still hold tag 'inbox' and no hook
C22_Witness ==
  /\ FactoryReturned
  /\ call.name = "toggletag" /\ call.mode = "search"
  /\ call.kwargs = ("tag" :> PyStr(<<"urgent">>))
  /\ ret.kind = "cmd"
  /\ ret.parms["tag"] = PyStr(<<"urgent">>)
  /\ ret.parms["posthook"] # PyNone
  /\ registry["search"]["toggletag"].parms = ("tag" :> PyStr(<<"inbox">>))

\* the names visible in a mode: registered in the mode or in 'global'
VisibleNames(mode) == DOMAIN registry[mode] \cup DOMAIN registry["global"]
\* the class registered for a visible name, the mode's entry first
ClassOf(mode, n) ==
  IF n \in DOMAIN registry[mode] THEN registry[mode][n].cls ELSE registry["global"][n].cls
\* some command line that begins with the name yields the name's command
ReachableFromText(mode, n) ==
  \E l \in Lines :
    /\ Len(l) >= 1
    /\ l[1] = n
    /\ LET r == interpret_commandline(registry, hooks, aliases, files, l, mode)
       IN  r.kind = "cmd" /\ r.cls = ClassOf(mode, n)

\* C23: for every mode and every name visible in it, some command line that
\* begins with the name makes interpret_commandline return the command
\* registered under the name (checked between calls, over all lines).
C23_EveryVisibleNameReachable ==
  pc = "idle" => \A mode \in Modes : \A n \in VisibleNames(mode) : ReachableFromText(mode, n)

(***************************************************************************)
(* Properties of SearchCommand.                                            *)
(***************************************************************************)
\* the positions of the open search buffers with a querystring
SearchesOf(u, query) ==
  {i \in 1..Len(u.buffers) : u.buffers[i].type = "search" /\ u.buffers[i].querystring = query}

\* no two open search buffers have the same querystring
OneBufferPerQuery(u) == \A query \in Queries : Cardinality(SearchesOf(u, query)) <= 1
\* the focused buffer is a search buffer with that querystring
FocusedSearch(u, query) ==
  /\ u.buffers[Focused(u)].type = "search"
  /\ u.buffers[Focused(u)].querystring = query

\* C24: a search applied with force_new false for the querystring of an
\* open search buffer focuses such a buffer and leaves the list of buffers as
\* it is, and for any other querystring it appends exactly one new search
\* buffer and focuses it; such a search, and the close of a buffer, keep it
\* true that no two open search buffers have the same querystring. So from
\* a UI without search buffers every sequence of these commands leaves at
\* most one open search buffer per querystring.
C24_OneSearchBufferPerQuery ==
  /\ []((ui.phase = "search" /\ last.op = "search") => FocusedSearch(ui, last.query))
  /\ [][(ui.phase = "search" /\ last'.op \in {"search", "close"} /\ ~last'.force_new) =>
          /\ OneBufferPerQuery(ui) => OneBufferPerQuery(ui')
          /\ last'.op = "search" =>
               LET open == SearchesOf(ui, last'.query)
               IN  /\ open # {} =>
                        /\ ui'.buffers = ui.buffers
                        /\ \E i \in open : ui'.current_buffer = ui.buffers[i].id
                   /\ open = {} =>
                        /\ Len(ui'.buffers) = Len(ui.buffers) + 1
                        /\ SubSeq(ui'.buffers, 1, Len(ui.buffers)) = ui.buffers
                        /\ ui'.buffers[Len(ui'.buffers)].type = "search"
                        /\ ui'.buffers[Len(ui'.buffers)].querystring = last'.query
                        /\ ui'.buffers[Len(ui'.buffers)].id \notin BufferIds(ui)
                        /\ ui'.current_buffer = ui'.buffers[Len(ui'.buffers)].id]_vars

\* a search for the empty query found its buffer open between the taglist
\* buffer, which also has no querystring, and another search buffer, and
\* focused it
C24_Witness ==
  /\ ui.phase = "search"
  /\ last.op = "search"
  /\ ~last.force_new
  /\ last.query = <<>>
  /\ Len(ui.buffers) = 3
  /\ ui.buffers[1].type = "taglist"
  /\ ui.buffers[3].type = "search"
  /\ OneBufferPerQuery(ui)
  /\ ui.current_buffer = ui.buffers[2].id
  /\ FocusedSearch(ui, <<>>)

(***************************************************************************)
(* Properties of EnvelopeSendCommand.                                      *)
(***************************************************************************)
SendApplied == ui.phase = "envelope" /\ last.op = "send"
\* the envelope the command was applied to
EnvelopeOf(u) == u.current_buffer
\* an account exists for the address in the From header of the mail
HasAccount(u) ==
  parseaddr(decode_header(header(get_email(u, EnvelopeOf(u)), "From")))[2] \in u.accounts
\* the notifications issued by the last apply
NewNotes == SubSeq(ui.notes, Len(last.pre.notes) + 1, Len(ui.notes))

\* C25: EnvelopeSendCommand.apply closes the envelope exactly when the From
\* address has an account and send_mail reports success; otherwise the
\* envelope stays open and focused and the last notification has priority
\* error; whenever send_mail was called, 'sending..' was shown and is
\* cleared again, after success and after failure.
C25_EnvelopeClosedOnlyOnSuccess ==
  SendApplied =>
    /\ (EnvelopeOf(last.pre) \notin BufferIds(ui)) <=> (HasAccount(last.pre) /\ last.success)
    /\ ~(HasAccount(last.pre) /\ last.success) =>
         /\ ui.buffers = last.pre.buffers
         /\ ui.current_buffer = EnvelopeOf(last.pre)
         /\ NewNotes # <<>>
         /\ NewNotes[Len(NewNotes)].priority = "error"
    /\ HasAccount(last.pre) =>
         /\ Len(NewNotes) = 2
         /\ NewNotes[1].text = "sending.."
         /\ NewNotes[2].priority = (IF last.success THEN "default" ELSE "error")
         /\ ui.outbox = Append(last.pre.outbox, get_email(last.pre, EnvelopeOf(last.pre)))
    /\ ~HasAccount(last.pre) =>
         /\ Len(NewNotes) = 1
         /\ ui.outbox = last.pre.outbox
    /\ ui.sticky = {}

\* a first send failed and left the envelope open, the second one went
\* through and closed it
C25_Witness ==
  /\ SendApplied
  /\ last.success
  /\ HasAccount(last.pre)
  /\ Len(last.pre.notes) = 2
  /\ last.pre.notes[2].priority = "error"
  /\ EnvelopeOf(last.pre) \in BufferIds(last.pre)
  /\ EnvelopeOf(last.pre) \notin BufferIds(ui)
  /\ Len(ui.outbox) = 2

(***************************************************************************)
(* Properties of the commands applied to the index, continued.             *)
(***************************************************************************)
ToggleApplied == ui.phase = "store" /\ last.op = "toggletag" /\ ~last.pre.readonly

\* C26: on a writable index ToggleThreadTagCommand.apply with tag t takes t
\* out of the thread's tags when it is there and puts it in when it is not,
\* and leaves every other tag alone; applied twice in a row with the same
\* tag to the same thread it leaves the tags the thread had before.
C26_ToggleIsInvolution ==
  ToggleApplied =>
    /\ last.tag \in last.pre.tags => ui.tags = last.pre.tags \ {last.tag}
    /\ last.tag \notin last.pre.tags => ui.tags = last.pre.tags \cup {last.tag}
    /\ \A t \in (ui.tags \cup last.pre.tags) \ {last.tag} :
         (t \in ui.tags) <=> (t \in last.pre.tags)
    /\ (last.prev.op = "toggletag" /\ last.prev.tag = last.tag) => ui.tags = last.prev.tags

\* urgent was added to a thread tagged inbox and taken out again
C26_Witness ==
  /\ ToggleApplied
  /\ last.tag = <<"urgent">>
  /\ last.prev.op = "toggletag"
  /\ last.prev.tag = <<"urgent">>
  /\ last.prev.tags = {<<"inbox">>}
  /\ last.pre.tags = {<<"inbox">>, <<"urgent">>}
  /\ ui.tags = {<<"inbox">>}

====
